---- MODULE Spec2Model ----
(***************************************************************************)
(* Verification model of evolution-walker: the evolution worker and its    *)
(* wrapper, the genetic algorithm and its library functions, the            *)
(* orchestrator's evolving phase, the TypeScript physics stages and the     *)
(* batched WASM kernel with its glue.                                       *)
(*                                                                         *)
(* Numbers.  The program computes in IEEE-754 doubles.  The model computes  *)
(* in fixed point: the real number r is the integer r * Scale, products     *)
(* and quotients are rescaled by Mul and Div.  Both physics paths are       *)
(* translated operation by operation in the order the source evaluates      *)
(* them, so that a difference between them is a difference of the code.     *)
(***************************************************************************)
EXTENDS Bags, FiniteSets, Integers, Sequences, TLC

VARIABLES
  \* ---- EvolutionWorker (main-thread wrapper) ----
  workerAlive,   \* this.worker !== null
  pending,       \* index into promises of the promise whose resolve/reject
                 \* are held in pendingResolve/pendingReject; 0 = null
  promises,      \* every promise evolve() has returned: [input, state, value]
  toWorker,      \* messages posted to the worker, not yet handled
  fromWorker,    \* messages posted by the worker, not yet delivered
  \* ---- worker thread (evolution.worker) ----
  wPc,           \* position of the worker's onmessage handler
  wInput,        \* the EvolutionInput being handled
  wElites, wParents, wNext, wP1, wP2,
  \* ---- orchestrator (advanced-learning page) ----
  phase,         \* phaseRef.current
  generation,    \* generationRef.current
  creatures,     \* creaturesRef.current, as [genome, fitness]
  rafScheduled,  \* a requestAnimationFrame(update) callback is scheduled
  reactions,     \* promises whose then/catch callbacks have not run yet
  hasWorkerRef,  \* evolutionWorkerRef.current !== null
  lastOutcome,   \* what the last handler of the evolving phase did
  sPc, sParents, sNext,  \* the synchronous fallback's loop
  \* ---- physics stepping ----
  tsPop,         \* a population stepped by the orchestrator's loop
  batchPop,      \* the same population stepped by stepPhysicsBatch
  batchPop2,     \* a second batch run that agrees with batchPop on `focus`
  wasmMemory, wasmMemory2,   \* the WASM linear memory of the two batch runs
  tsTicks, batchTicks,   \* ticks run so far on either path
  focus,         \* index of the creature the two batch runs share
  solo, solo0,   \* a creature handed to stepPhysics or to single stages,
                 \* and the same creature before the calls
  stageLog,      \* per creature, the stages the latest tick ran
  calls,         \* the calls made on solo so far
  \* ---- genetics library ----
  libCall,       \* a call of a selection, crossover, mutation or seeding
                 \* function: its name and arguments
  libResult,     \* what the call did: [threw, value]
  \* ---- frame loop of the advanced-learning page ----
  timeAccumulator,   \* timeAccumulatorRef: simulated time not yet stepped
  totalSimTime,      \* totalSimTimeRef: simulated time stepped so far
  generationTime,    \* generationTimeRef: scaled wall-clock time of the generation
  lastStateUpdate,   \* lastStateUpdateRef
  creatureFitness,   \* per creature, the FitnessScore last assigned (<<>>: none yet)
  frames,        \* invocations of update so far
  frameLog       \* the latest invocation: [simDelta, passes, simTime]

workerVars == <<workerAlive, pending, promises, toWorker, fromWorker>>
threadVars == <<wPc, wInput, wElites, wParents, wNext, wP1, wP2>>
orchVars   == <<phase, generation, creatures, rafScheduled, reactions,
                hasWorkerRef, lastOutcome, sPc, sParents, sNext>>
physVars   == <<tsPop, batchPop, batchPop2, wasmMemory, wasmMemory2, tsTicks, batchTicks, focus,
                solo, solo0, stageLog, calls>>
libVars    == <<libCall, libResult>>
frameVars  == <<timeAccumulator, totalSimTime, generationTime, lastStateUpdate,
                creatureFitness, frames, frameLog>>
vars == <<workerVars, threadVars, orchVars, physVars, libVars, frameVars>>

(***************************************************************************)
(* Fixed point                                                             *)
(***************************************************************************)
Scale == 100

Min(a, b) == IF a < b THEN a ELSE b
Max(a, b) == IF a > b THEN a ELSE b
Mul(a, b) == (a * b) \div Scale
Div(a, b) == (a * Scale) \div b
\* Math.floor of a fixed-point number, as an integer
Floor(a) == a \div Scale
\* the fixed-point value of the decimal n/100
Pct(n) == (n * Scale) \div 100

None == [none |-> TRUE]

(***************************************************************************)
(* Genetic algorithm                                                       *)
(***************************************************************************)
\* Values Math.random() returns, in hundredths: 0 <= r < 1
Rand == {0, Pct(99)}

\* Array.prototype.sort with the comparator (a, b) => b.fitness.total -
\* a.fitness.total: descending, stable
RECURSIVE InsertDesc(_, _)
InsertDesc(c, sorted) ==
  IF sorted = <<>> THEN <<c>>
  ELSE IF Head(sorted).fitness >= c.fitness
       THEN <<Head(sorted)>> \o InsertDesc(c, Tail(sorted))
       ELSE <<c>> \o sorted

\* a sort that leaves the array as it is
SortKeepsOrder(cs) == cs

RECURSIVE SortDesc(_)
SortDesc(cs) ==
  IF cs = <<>> THEN <<>>
  ELSE InsertDesc(cs[Len(cs)], SortDesc(SubSeq(cs, 1, Len(cs) - 1)))

\* Array.prototype.slice(0, n); a negative n counts from the end
Slice0(s, n) ==
  SubSeq(s, 1, IF n < 0 THEN Max(Len(s) + n, 0) ELSE Min(n, Len(s)))

\* a selection whose mating pool is the whole population
selectWholePopulation(cs, elitismCount, topPercent) ==
  IF Len(cs) = 0 THEN [elites |-> <<>>, parents |-> <<>>]
  ELSE [elites  |-> Slice0(SortDesc(cs), Min(elitismCount, Len(cs))),
        parents |-> SortDesc(cs)]

selectElitesAndParents(cs, elitismCount, topPercent) ==
  IF Len(cs) = 0 THEN [elites |-> <<>>, parents |-> <<>>]
  ELSE LET sorted == SortDesc(cs)
           topCount == Max(1, Floor(Len(sorted) * topPercent))
       IN [elites  |-> Slice0(sorted, Min(elitismCount, Len(sorted))),
           parents |-> Slice0(sorted, topCount)]

\* a reduce that keeps the first element
ReduceFirst(best, rest) == best

\* tournament.reduce((best, current) => current.fitness.total >
\*   best.fitness.total ? current : best)
RECURSIVE ReduceBest(_, _)
ReduceBest(best, rest) ==
  IF rest = <<>> THEN best
  ELSE ReduceBest(IF Head(rest).fitness > best.fitness THEN Head(rest) ELSE best,
                  Tail(rest))

TournamentSize == 3

\* draws: one Math.random() value per tournament slot
workerTournamentSelection(cs, draws) ==
  LET tournament == [i \in 1..Len(draws) |-> cs[Floor(draws[i] * Len(cs)) + 1]]
  IN ReduceBest(tournament[1], Tail(tournament))

arithmeticCrossoverAlpha == Pct(50)

arithmeticCrossover(parent1, parent2, freshId) ==
  LET a == Max(0, Min(Scale, arithmeticCrossoverAlpha))
      blend(x, y) == Mul(x, a) + Mul(y, Scale - a)
  IN [id |-> freshId,
      genes |-> [i \in 1..Len(parent1.genes) |->
                   LET g1 == parent1.genes[i]
                       g2 == parent2.genes[i]
                   IN IF i > Len(parent2.genes) THEN g1   \* if (!gene2) return gene1
                      ELSE [muscleId  |-> g1.muscleId,
                            amplitude |-> blend(g1.amplitude, g2.amplitude),
                            frequency |-> blend(g1.frequency, g2.frequency),
                            phase     |-> blend(g1.phase, g2.phase)]],
      generation |-> Max(parent1.generation, parent2.generation) + 1,
      parentIds |-> <<parent1.id, parent2.id>>]

TwoPi == Pct(628)

\* a mutation that does not clamp its result
mutateValueUnclamped(value, lo, hi, r, mutationStrength) ==
  Mul(value, Scale + Mul((r - Pct(50)) * 2, mutationStrength))

mutateValue(value, lo, hi, r, mutationStrength) ==
  LET change == Mul((r - Pct(50)) * 2, mutationStrength)
      newValue == Mul(value, Scale + change)
  IN Max(lo, Min(hi, newValue))

\* draws[i] = <<coin, rAmplitude, rFrequency, rPhase>> for gene i
mutateGenome(genome, mutationRate, mutationStrength, draws) ==
  [genome EXCEPT !.genes =
     [i \in 1..Len(genome.genes) |->
        LET gene == genome.genes[i]
            d == draws[i]
        IN IF d[1] > mutationRate THEN gene
           ELSE [gene EXCEPT
                   !.amplitude = mutateValue(gene.amplitude, Pct(5), Pct(80), d[2], mutationStrength),
                   !.frequency = mutateValue(gene.frequency, Pct(10), Pct(500), d[3], mutationStrength),
                   !.phase     = mutateValue(gene.phase, 0, TwoPi, d[4], mutationStrength)]]]

(***************************************************************************)
(* Worker thread: self.onmessage of evolution.worker running               *)
(* evolveGeneration.  The handler runs on its own thread; its loop is      *)
(* stepped one statement group at a time (wPc).                            *)
(***************************************************************************)
EmptySelectionMsg == "Cannot select from empty creature array"
CrossoverArityMsg == "Parent genomes must have the same number of genes for crossover"

RECURSIVE MaxId(_)
MaxId(gs) == IF gs = <<>> THEN 0 ELSE Max(Head(gs).id, MaxId(Tail(gs)))

\* `genome-${Date.now()}-${random}`: an id no genome of the request and no
\* genome bred so far carries
FreshId(input, next) ==
  1 + Max(MaxId([i \in 1..Len(input.creatures) |-> input.creatures[i].genome]),
          MaxId(next))

Output(genomes) == [genomes |-> genomes, error |-> ""]
\* a catch that posts no error
SilentOutput(msg) == [genomes |-> <<>>, error |-> ""]

ErrorOutput(msg) == [genomes |-> <<>>, error |-> msg]

ThreadIdle ==
  /\ wPc' = "idle" /\ wInput' = None /\ wElites' = <<>> /\ wParents' = <<>>
  /\ wNext' = <<>> /\ wP1' = None /\ wP2' = None

\* self.onmessage entry; evolveGeneration up to the while loop
WorkerReceive ==
  /\ wPc = "idle" /\ toWorker # <<>>
  /\ LET input == Head(toWorker)
         sel == selectElitesAndParents(input.creatures, input.config.elitismCount,
                                       input.config.parentsTopPercent)
     IN /\ wInput' = input
        /\ wElites' = sel.elites
        /\ wParents' = sel.parents
        /\ wNext' = [i \in 1..Len(sel.elites) |-> sel.elites[i].genome]
  /\ toWorker' = Tail(toWorker)
  /\ wPc' = "loop" /\ wP1' = None /\ wP2' = None
  /\ UNCHANGED <<workerAlive, pending, promises, fromWorker, orchVars, physVars, libVars, frameVars>>

\* while (nextGenomes.length < populationSize); on exit postMessage(output)
WorkerLoopTest ==
  /\ wPc = "loop"
  /\ IF Len(wNext) < wInput.config.populationSize
     THEN /\ wPc' = "p1"
          /\ UNCHANGED <<wInput, wElites, wParents, wNext, wP1, wP2, fromWorker>>
     ELSE /\ fromWorker' = Append(fromWorker, Output(wNext))
          /\ ThreadIdle
  /\ UNCHANGED <<workerAlive, pending, promises, toWorker, orchVars, physVars, libVars, frameVars>>

\* const p1 = workerTournamentSelection(parents, 3); a throw is caught by
\* onmessage, which posts {error}
WorkerSelectP1 ==
  /\ wPc = "p1"
  /\ IF Len(wParents) = 0
     THEN /\ fromWorker' = Append(fromWorker, ErrorOutput(EmptySelectionMsg))
          /\ ThreadIdle
     ELSE /\ \E draws \in [1..TournamentSize -> Rand] :
               wP1' = workerTournamentSelection(wParents, draws)
          /\ wPc' = "p2"
          /\ UNCHANGED <<wInput, wElites, wParents, wNext, wP2, fromWorker>>
  /\ UNCHANGED <<workerAlive, pending, promises, toWorker, orchVars, physVars, libVars, frameVars>>

WorkerSelectP2 ==
  /\ wPc = "p2"
  /\ \E draws \in [1..TournamentSize -> Rand] :
       wP2' = workerTournamentSelection(wParents, draws)
  /\ wPc' = "breed"
  /\ UNCHANGED <<wInput, wElites, wParents, wNext, wP1, fromWorker>>
  /\ UNCHANGED <<workerAlive, pending, promises, toWorker, orchVars, physVars, libVars, frameVars>>

\* crossover, mutation, generation stamp, push
WorkerBreed ==
  /\ wPc = "breed"
  /\ IF Len(wP1.genome.genes) # Len(wP2.genome.genes)
     THEN /\ fromWorker' = Append(fromWorker, ErrorOutput(CrossoverArityMsg))
          /\ ThreadIdle
     ELSE /\ \E draws \in [1..Len(wP1.genome.genes) -> [1..4 -> Rand]] :
               LET crossed == arithmeticCrossover(wP1.genome, wP2.genome,
                                                  FreshId(wInput, wNext))
                   mutated == mutateGenome(crossed, wInput.config.mutationRate,
                                           wInput.config.mutationStrength, draws)
                   offspring == [mutated EXCEPT
                                   !.generation = wInput.config.currentGeneration + 1]
               IN wNext' = Append(wNext, offspring)
          /\ wPc' = "loop"
          /\ UNCHANGED <<wInput, wElites, wParents, wP1, wP2, fromWorker>>
  /\ UNCHANGED <<workerAlive, pending, promises, toWorker, orchVars, physVars, libVars, frameVars>>

WorkerThread ==
  WorkerReceive \/ WorkerLoopTest \/ WorkerSelectP1 \/ WorkerSelectP2 \/ WorkerBreed

(***************************************************************************)
(* EvolutionWorker: the main-thread wrapper                                *)
(***************************************************************************)
\* a promise settles with an output (resolved) or an Error (rejected), both
\* written as an EvolutionOutput record
Settle(ps, i, st, v) == [ps EXCEPT ![i].state = st, ![i].value = v]

SupersededMsg == "New evolution request started before previous completed"

\* evolve(input): the new promises and pending; postFails: postMessage throws
evolveKeepsPrevious(ps) == ps

evolveRejectsPrevious(ps) ==
  IF pending # 0 THEN Settle(ps, pending, "rejected", ErrorOutput(SupersededMsg)) ELSE ps

EvolveCall(input, postFails) ==
  IF ~workerAlive
  THEN /\ promises' = Append(promises,
            [input |-> input, state |-> "rejected",
             value |-> ErrorOutput("Worker not available")])
       /\ UNCHANGED <<pending, toWorker>>
  ELSE LET ps == evolveRejectsPrevious(promises)
           n == Len(promises) + 1
       IN IF postFails
          THEN /\ promises' = Append(ps, [input |-> input, state |-> "rejected",
                                          value |-> ErrorOutput("Failed to send message to worker")])
               /\ pending' = 0
               /\ UNCHANGED toWorker
          ELSE /\ promises' = Append(ps, [input |-> input, state |-> "pending",
                                          value |-> Output(<<>>)])
               /\ pending' = n
               /\ toWorker' = Append(toWorker, input)

\* a promise whose then/catch callback is queued as a microtask
ReadyReactions == {i \in reactions : promises[i].state # "pending"}

\* worker.onmessage
Deliver ==
  /\ fromWorker # <<>> /\ ReadyReactions = {} /\ sPc = "idle"
  /\ LET output == Head(fromWorker)
     IN IF pending = 0 THEN UNCHANGED <<promises, pending>>
        ELSE /\ promises' = IF output.error # ""
                            THEN Settle(promises, pending, "rejected", ErrorOutput(output.error))
                            ELSE Settle(promises, pending, "resolved", output)
             /\ pending' = 0
  /\ fromWorker' = Tail(fromWorker)
  /\ UNCHANGED <<workerAlive, toWorker, threadVars, orchVars, physVars, libVars, frameVars>>

\* worker.onerror, when a request is pending (otherwise it changes nothing)
WorkerErrorEvent ==
  /\ workerAlive /\ pending # 0 /\ ReadyReactions = {} /\ sPc = "idle"
  /\ promises' = Settle(promises, pending, "rejected", ErrorOutput("Worker error occurred"))
  /\ pending' = 0
  /\ UNCHANGED <<workerAlive, toWorker, fromWorker, threadVars, orchVars, physVars, libVars, frameVars>>

\* terminate(): the thread and the messages in flight are discarded
TerminateCall ==
  /\ workerAlive' = FALSE
  /\ toWorker' = <<>> /\ fromWorker' = <<>>
  /\ ThreadIdle
  /\ IF pending # 0
     THEN /\ promises' = Settle(promises, pending, "rejected", ErrorOutput("Worker terminated"))
          /\ pending' = 0
     ELSE UNCHANGED <<promises, pending>>

(***************************************************************************)
(* Sample data                                                             *)
(***************************************************************************)
Gene(m, a, f, p) == [muscleId |-> m, amplitude |-> a, frequency |-> f, phase |-> p]
Genome(id, genes, gen) ==
  [id |-> id, genes |-> genes, generation |-> gen, parentIds |-> <<>>]
CreatureData(genome, fitness) == [genome |-> genome, fitness |-> fitness]
ConfigM(e, pct, size, gen, rate, strength) ==
  [elitismCount |-> e, parentsTopPercent |-> Pct(pct), mutationRate |-> Pct(rate),
   mutationStrength |-> Pct(strength), populationSize |-> size,
   currentGeneration |-> gen]
\* MUTATION_RATE = 0.12 and MUTATION_STRENGTH = 0.42 of the orchestrator
Config(e, pct, size, gen) == ConfigM(e, pct, size, gen, 12, 42)

GenomeA == Genome(1, <<Gene("m1", Pct(60), Pct(100), Pct(300))>>, 0)
GenomeB == Genome(2, <<Gene("m1", Pct(20), Pct(240), Pct(100))>>, 1)
GenomeC == Genome(3, <<Gene("m1", Pct(80), Pct(30), Pct(620))>>, 0)
GenomeA2 == Genome(5, <<Gene("m1", Pct(40), Pct(50), Pct(200))>>, 2)
\* a genome of another topology lineage: two genes
GenomeX == Genome(4, <<Gene("m1", Pct(60), Pct(100), 0), Gene("m2", Pct(30), Pct(50), 0)>>, 0)

(***************************************************************************)
(* SpecWorker: the wrapper and the worker thread under an arbitrary client *)
(***************************************************************************)
MaxRequests == 2

\* genomes whose bred offspring take few distinct values under mutation
GenomeP == Genome(1, <<Gene("m1", Pct(150), Pct(100), 0)>>, 0)
GenomeQ == Genome(2, <<Gene("m1", Pct(150), Pct(100), 0)>>, 1)

WorkerInputs ==
  { [creatures |-> <<>>, config |-> Config(1, 50, 2, 0)],
    [creatures |-> <<CreatureData(GenomeP, 5), CreatureData(GenomeQ, 9)>>,
     config |-> Config(1, 50, 2, 1)] }

OrchIdle ==
  /\ phase = "none" /\ generation = 0 /\ creatures = <<>> /\ rafScheduled = FALSE
  /\ reactions = {} /\ hasWorkerRef = FALSE /\ lastOutcome = "none"
  /\ sPc = "idle" /\ sParents = <<>> /\ sNext = <<>>

\* no physics is being stepped
PhysIdle ==
  /\ tsPop = <<>> /\ batchPop = <<>> /\ batchPop2 = <<>>
  /\ wasmMemory = <<>> /\ wasmMemory2 = <<>>
  /\ tsTicks = 0 /\ batchTicks = 0 /\ focus = 0
  /\ solo = None /\ solo0 = None
  /\ stageLog = <<>> /\ calls = <<>>

\* no library call is being made
LibIdle == libCall = None /\ libResult = None

\* no frame loop is running
FrameIdle ==
  /\ timeAccumulator = 0 /\ totalSimTime = 0 /\ generationTime = 0
  /\ lastStateUpdate = 0 /\ creatureFitness = <<>> /\ frames = 0 /\ frameLog = None

InitWorker ==
  /\ workerAlive \in BOOLEAN   \* the constructor may fail to create a worker
  /\ pending = 0 /\ promises = <<>> /\ toWorker = <<>> /\ fromWorker = <<>>
  /\ wPc = "idle" /\ wInput = None /\ wElites = <<>> /\ wParents = <<>>
  /\ wNext = <<>> /\ wP1 = None /\ wP2 = None
  /\ OrchIdle
  /\ PhysIdle
  /\ FrameIdle
  /\ LibIdle

ClientEvolve ==
  /\ Len(promises) < MaxRequests
  /\ \E input \in WorkerInputs, postFails \in BOOLEAN : EvolveCall(input, postFails)
  /\ UNCHANGED <<workerAlive, fromWorker, threadVars, orchVars, physVars, libVars, frameVars>>

ClientTerminate ==
  /\ workerAlive
  /\ TerminateCall
  /\ UNCHANGED <<orchVars, physVars, libVars, frameVars>>

NextWorker ==
  \/ ClientEvolve
  \/ ClientTerminate
  \/ Deliver
  \/ WorkerErrorEvent
  \/ WorkerThread

SpecWorker == InitWorker /\ [][NextWorker]_vars

(***************************************************************************)
(* Orchestrator: update() of the advanced-learning page, evolving phase.   *)
(* The running and evaluating phases are one step that assigns fitness.    *)
(***************************************************************************)
\* POPULATION_SIZE is 1000 in the source; the model runs a smaller one
POPULATION_SIZE == 5
ELITISM_COUNT == 1
PARENTS_TOP_PERCENT == Pct(20)
MUTATION_RATE == Pct(12)
MUTATION_STRENGTH == Pct(42)
MaxGeneration == 1

\* Math.pow(2u, 1/(eta+1)) for u <= 0.5, Math.pow(1/(2(1-u)), 1/(eta+1))
\* otherwise, with eta = SBX_ETA = 10, at the values Rand draws from
SbxBeta(u) == IF u = 0 THEN 0 ELSE IF u <= Pct(50) THEN Scale ELSE Pct(143)

sbxOne(a, b, u, pick) ==
  LET x1 == Min(a, b)
      x2 == Max(a, b)
      beta == SbxBeta(u)
      c1 == (x1 + x2 - Mul(beta, x2 - x1)) \div 2
      c2 == (x1 + x2 + Mul(beta, x2 - x1)) \div 2
  IN IF pick < Pct(50) THEN c1 ELSE c2

clip(value, lo, hi) == Max(lo, Min(hi, value))

\* draws[i] = <<uA, pickA, uF, pickF, uP, pickP>> for gene i
sbxCrossover(parent1, parent2, freshId, draws) ==
  [id |-> freshId,
   genes |-> [i \in 1..Len(parent1.genes) |->
                LET g1 == parent1.genes[i]
                    g2 == parent2.genes[i]
                    d == draws[i]
                IN IF i > Len(parent2.genes) THEN g1   \* if (!gene2) return gene1
                   ELSE [muscleId  |-> g1.muscleId,
                         amplitude |-> clip(sbxOne(g1.amplitude, g2.amplitude, d[1], d[2]), Pct(5), Pct(80)),
                         frequency |-> clip(sbxOne(g1.frequency, g2.frequency, d[3], d[4]), Pct(10), Pct(500)),
                         phase     |-> clip(sbxOne(g1.phase, g2.phase, d[5], d[6]), 0, TwoPi)]],
   generation |-> Max(parent1.generation, parent2.generation) + 1,
   parentIds |-> <<parent1.id, parent2.id>>]

\* the fallback's inline mutation: one change for the three fields of a gene;
\* draws[i] = <<coin, r>>
fallbackMutate(genes, draws) ==
  [i \in 1..Len(genes) |->
     LET gene == genes[i]
         change == Mul((draws[i][2] - Pct(50)) * 2, MUTATION_STRENGTH)
     IN IF draws[i][1] > MUTATION_RATE THEN gene
        ELSE [gene EXCEPT
                !.amplitude = clip(Mul(gene.amplitude, Scale + change), Pct(5), Pct(80)),
                !.frequency = clip(Mul(gene.frequency, Scale + change), Pct(10), Pct(500)),
                !.phase     = clip(Mul(gene.phase, Scale + change), 0, TwoPi)]]

\* the draws of one sbxCrossover call; between parents of equal genes every
\* draw gives c1 = c2 = x1, so one draw stands for all
SbxDraws(parent1, parent2) ==
  IF parent1.genes = parent2.genes
  THEN {[i \in 1..Len(parent1.genes) |-> [k \in 1..6 |-> 0]]}
  ELSE [1..Len(parent1.genes) -> [1..6 -> Rand]]

\* createCreatureFromTopology, as far as evolution reads the creature
NewCreatures(genomes) == [i \in 1..Len(genomes) |-> CreatureData(genomes[i], 0)]

\* the main thread is between tasks: no handler is running and no promise
\* reaction is queued
MainIdle == sPc = "idle" /\ ReadyReactions = {}

\* update() in the running phase, through evaluation: every creature gets its
\* fitness; no creature reached the target
FrameRunning ==
  /\ MainIdle /\ rafScheduled /\ phase = "running"
  /\ generation < MaxGeneration
  /\ creatures' = [i \in 1..Len(creatures) |->
                     [creatures[i] EXCEPT
                        !.fitness = IF i = Len(creatures) THEN 9 ELSE i % 3]]
  /\ phase' = "evolving"
  /\ UNCHANGED <<generation, rafScheduled, reactions, hasWorkerRef, lastOutcome,
                 sPc, sParents, sNext, workerVars, threadVars, physVars, libVars, frameVars>>

\* update() in the evolving phase without an available worker: selection
FrameEvolvingSync ==
  /\ MainIdle /\ rafScheduled /\ phase = "evolving"
  /\ ~hasWorkerRef \/ ~workerAlive
  /\ creatures' = SortDesc(creatures)
  /\ sParents' = Slice0(SortDesc(creatures),
                        Floor(Len(creatures) * PARENTS_TOP_PERCENT))
  /\ sNext' = [i \in 1..Len(Slice0(SortDesc(creatures), ELITISM_COUNT)) |->
                 SortDesc(creatures)[i].genome]
  /\ sPc' = "loop" /\ rafScheduled' = FALSE
  /\ UNCHANGED <<phase, generation, reactions, hasWorkerRef, lastOutcome,
                 workerVars, threadVars, physVars, libVars, frameVars>>

\* one iteration of the fallback's while loop; with no parents p1 is
\* undefined and p1.genome throws out of update()
SyncBreed ==
  /\ sPc = "loop" /\ Len(sNext) < POPULATION_SIZE
  /\ IF Len(sParents) = 0
     THEN /\ sPc' = "idle" /\ sNext' = <<>> /\ lastOutcome' = "threw"
          /\ UNCHANGED sParents
     ELSE /\ \E r1, r2 \in Rand :
             LET p1 == sParents[Floor(r1 * Len(sParents)) + 1]
                 p2 == sParents[Floor(r2 * Len(sParents)) + 1]
                 n == Len(p1.genome.genes)
             IN \E xd \in SbxDraws(p1.genome, p2.genome) :
                \E md \in [1..n -> [1..2 -> Rand]] :
               LET crossed == sbxCrossover(p1.genome, p2.genome,
                                           FreshId([creatures |-> creatures], sNext), xd)
                   offspring == [crossed EXCEPT !.generation = generation + 1,
                                                !.genes = fallbackMutate(crossed.genes, md)]
               IN sNext' = Append(sNext, offspring)
          /\ UNCHANGED <<sPc, sParents, lastOutcome>>
  /\ UNCHANGED <<phase, generation, creatures, rafScheduled, reactions,
                 hasWorkerRef, workerVars, threadVars, physVars, libVars, frameVars>>

\* the fallback's loop has filled the population
SyncFinish ==
  /\ sPc = "loop" /\ Len(sNext) >= POPULATION_SIZE
  /\ creatures' = NewCreatures(sNext)
  /\ generation' = generation + 1
  /\ phase' = "running" /\ rafScheduled' = TRUE /\ lastOutcome' = "sync"
  /\ sPc' = "idle" /\ sParents' = <<>> /\ sNext' = <<>>
  /\ UNCHANGED <<reactions, hasWorkerRef, workerVars, threadVars, physVars, libVars, frameVars>>

\* update() in the evolving phase with a worker: evolve(...).then().catch();
\* update returns without requesting a frame
FrameEvolvingWorker ==
  /\ MainIdle /\ rafScheduled /\ phase = "evolving"
  /\ hasWorkerRef /\ workerAlive
  /\ Len(promises) < MaxRequests
  /\ \E postFails \in BOOLEAN :
       EvolveCall([creatures |-> creatures,
                   config |-> [elitismCount |-> ELITISM_COUNT,
                               parentsTopPercent |-> PARENTS_TOP_PERCENT,
                               mutationRate |-> MUTATION_RATE,
                               mutationStrength |-> MUTATION_STRENGTH,
                               populationSize |-> POPULATION_SIZE,
                               currentGeneration |-> generation]],
                  postFails)
  /\ reactions' = reactions \cup {Len(promises) + 1}
  /\ rafScheduled' = FALSE
  /\ UNCHANGED <<workerAlive, fromWorker, threadVars, phase, generation, creatures,
                 hasWorkerRef, lastOutcome, sPc, sParents, sNext, physVars, libVars, frameVars>>

\* .then((output) => ...)
PromiseThen ==
  /\ sPc = "idle"
  /\ \E i \in reactions :
       /\ promises[i].state = "resolved"
       /\ reactions' = reactions \ {i}
       /\ IF promises[i].value.error # ""
          THEN /\ phase' = "evolving" /\ lastOutcome' = "failed"
               /\ UNCHANGED <<creatures, generation>>
          ELSE /\ creatures' = NewCreatures(promises[i].value.genomes)
               /\ generation' = promises[i].input.config.currentGeneration + 1
               /\ phase' = "running" /\ lastOutcome' = "worker"
  /\ rafScheduled' = TRUE
  /\ UNCHANGED <<hasWorkerRef, sPc, sParents, sNext, workerVars, threadVars, physVars, libVars, frameVars>>

\* .catch((error) => ...)
PromiseCatch ==
  /\ sPc = "idle"
  /\ \E i \in reactions :
       /\ promises[i].state = "rejected"
       /\ reactions' = reactions \ {i}
  /\ phase' = "evolving" /\ rafScheduled' = TRUE /\ lastOutcome' = "failed"
  /\ UNCHANGED <<generation, creatures, hasWorkerRef, sPc, sParents, sNext,
                 workerVars, threadVars, physVars, libVars, frameVars>>

\* the frame-loop effect runs again (one of its dependencies changed): the
\* scheduled frame is cancelled and a new one requested
EffectRestart ==
  /\ MainIdle /\ ~rafScheduled /\ hasWorkerRef
  /\ rafScheduled' = TRUE
  /\ UNCHANGED <<phase, generation, creatures, reactions, hasWorkerRef, lastOutcome,
                 sPc, sParents, sNext, workerVars, threadVars, physVars, libVars, frameVars>>

\* the page unmounts: both effect cleanups run
Unmount ==
  /\ MainIdle /\ hasWorkerRef
  /\ TerminateCall
  /\ hasWorkerRef' = FALSE /\ rafScheduled' = FALSE
  /\ UNCHANGED <<phase, generation, creatures, reactions, lastOutcome,
                 sPc, sParents, sNext, physVars, libVars, frameVars>>

InitialGenome(i) == Genome(i, <<Gene("m1", Pct(150), Pct(100), 0)>>, 0)

InitOrch ==
  /\ workerAlive \in BOOLEAN   \* the constructor may fail to create a worker
  /\ pending = 0 /\ promises = <<>> /\ toWorker = <<>> /\ fromWorker = <<>>
  /\ wPc = "idle" /\ wInput = None /\ wElites = <<>> /\ wParents = <<>>
  /\ wNext = <<>> /\ wP1 = None /\ wP2 = None
  /\ phase = "running" /\ generation = 0
  /\ creatures = NewCreatures([i \in 1..POPULATION_SIZE |-> InitialGenome(i)])
  /\ rafScheduled = TRUE /\ reactions = {} /\ hasWorkerRef = TRUE
  /\ lastOutcome = "none"
  /\ sPc = "idle" /\ sParents = <<>> /\ sNext = <<>>
  /\ PhysIdle
  /\ FrameIdle
  /\ LibIdle

NextOrch ==
  \/ FrameRunning
  \/ FrameEvolvingSync
  \/ SyncBreed
  \/ SyncFinish
  \/ FrameEvolvingWorker
  \/ PromiseThen
  \/ PromiseCatch
  \/ EffectRestart
  \/ Unmount
  \/ Deliver
  \/ WorkerErrorEvent
  \/ WorkerThread

SpecOrch == InitOrch /\ [][NextOrch]_vars

(***************************************************************************)
(* SpecGA: one evolveGeneration request, from every population and         *)
(* configuration of the bounded input set, run by the worker thread and    *)
(* delivered to the caller.                                                *)
(***************************************************************************)
MaxPop == 3
MaxElite == 2
MaxSize == 3

GAGenomes == <<GenomeA, GenomeB, GenomeC, GenomeA2>>
GAFitness == {3, 7}
GAPopulations ==
  UNION { { [i \in 1..n |-> CreatureData(GAGenomes[((i - 1) % 4) + 1], f[i])] :
            f \in [1..n -> GAFitness] } : n \in 0..MaxPop }
GAConfigs ==
  { ConfigM(e, pct, size, 4, 12, 0) :
      e \in 0..MaxElite, pct \in {50, 70}, size \in 1..MaxSize }
GAInputs == { [creatures |-> pop, config |-> cfg] :
              pop \in GAPopulations, cfg \in GAConfigs }

InitGA ==
  /\ workerAlive = TRUE
  /\ \E input \in GAInputs :
       /\ promises = <<[input |-> input, state |-> "pending", value |-> Output(<<>>)]>>
       /\ toWorker = <<input>>
  /\ pending = 1 /\ fromWorker = <<>>
  /\ wPc = "idle" /\ wInput = None /\ wElites = <<>> /\ wParents = <<>>
  /\ wNext = <<>> /\ wP1 = None /\ wP2 = None
  /\ OrchIdle
  /\ PhysIdle
  /\ FrameIdle
  /\ LibIdle

NextGA == WorkerThread \/ Deliver

SpecGA == InitGA /\ [][NextGA]_vars

(***************************************************************************)
(* Physics: the TypeScript stages (in-place versions).  A vector is        *)
(* [x, y]; a particle is [id, pos, oldPos, mass, radius, isLocked,          *)
(* velocity].  y grows downwards: the ground is at the largest y.           *)
(***************************************************************************)
Abs(a) == IF a < 0 THEN -a ELSE a

\* Math.sqrt of a squared fixed-point length (integer square root)
RECURSIVE SqrtIter(_, _)
SqrtIter(n, x) ==
  LET y == (x + n \div x) \div 2
  IN IF y >= x THEN x ELSE SqrtIter(n, y)

Sqrt(n) == IF n <= 0 THEN 0 ELSE SqrtIter(n, n)

Pi == Pct(314)

\* Math.sin on [0, pi] (Bhaskara's rational approximation)
SinHalf(r) == (16 * r * (Pi - r) * Scale) \div (5 * Pi * Pi - 4 * r * (Pi - r))

\* Math.sin, for arguments >= 0
Sin(arg) ==
  LET r == arg % (2 * Pi)
  IN IF r <= Pi THEN SinHalf(r) ELSE -SinHalf(r - Pi)

Vec(x, y) == [x |-> x, y |-> y]
distance(a, b) == Sqrt((b.x - a.x) * (b.x - a.x) + (b.y - a.y) * (b.y - a.y))
subtract(a, b) == Vec(a.x - b.x, a.y - b.y)
\* a normalize that answers a zero vector with the unit vector along x
normalizeAlongX(v) ==
  LET len == Sqrt(v.x * v.x + v.y * v.y)
  IN IF len = 0 THEN Vec(Scale, 0) ELSE Vec(Div(v.x, len), Div(v.y, len))
normalize(v) ==
  LET len == Sqrt(v.x * v.x + v.y * v.y)
  IN IF len = 0 THEN Vec(0, 0) ELSE Vec(Div(v.x, len), Div(v.y, len))
scale(v, k) == Vec(Mul(v.x, k), Mul(v.y, k))

\* index of the particle with this id, 0 when there is none
IndexOfId(ps, id) ==
  IF \E i \in 1..Len(ps) : ps[i].id = id
  THEN CHOOSE i \in 1..Len(ps) : ps[i].id = id /\ \A j \in 1..(i - 1) : ps[j].id # id
  ELSE 0

\* currentLength = baseLength * (1 + amplitude * sin(time * frequency * 2pi + phase))
oscillatedLength(baseLength, amplitude, frequency, phaseOffset, time) ==
  LET oscillation == Mul(amplitude, Sin(Mul(Mul(time, frequency), 2 * Pi) + phaseOffset))
  IN Mul(baseLength, Scale + oscillation)

updateMuscles(muscles, time) ==
  [i \in 1..Len(muscles) |->
     [muscles[i] EXCEPT !.currentLength =
        oscillatedLength(muscles[i].baseLength, muscles[i].amplitude,
                         muscles[i].frequency, muscles[i].phase, time)]]

\* the damped oldPos and velocity of one unlocked particle
dampParticle(p, coefficient) ==
  LET dampingFactor == Scale - coefficient
      dampedVx == Mul(p.pos.x - p.oldPos.x, dampingFactor)
      dampedVy == Mul(p.pos.y - p.oldPos.y, dampingFactor)
  IN [p EXCEPT !.oldPos = Vec(p.pos.x - dampedVx, p.pos.y - dampedVy),
               !.velocity = Vec(dampedVx, dampedVy)]

applyAirResistance(ps, coefficient) ==
  [i \in 1..Len(ps) |-> IF ps[i].isLocked THEN ps[i] ELSE dampParticle(ps[i], coefficient)]

\* the Verlet step of one unlocked particle
verletParticle(p, forces, dt) ==
  LET dtSq == Mul(dt, dt)
      vx == p.pos.x - p.oldPos.x
      vy == p.pos.y - p.oldPos.y
      ax == Div(forces.x, p.mass)
      ay == Div(forces.y, p.mass)
  IN [p EXCEPT !.pos = Vec(p.pos.x + vx + Mul(ax, dtSq), p.pos.y + vy + Mul(ay, dtSq)),
               !.oldPos = p.pos,
               !.velocity = Vec(Div(vx, dt), Div(vy, dt))]

integrateVerlet(ps, forces, dt, airResistance) ==
  LET moved == [i \in 1..Len(ps) |->
                  IF ps[i].isLocked THEN ps[i] ELSE verletParticle(ps[i], forces, dt)]
  IN IF airResistance > 0 THEN applyAirResistance(moved, airResistance) ELSE moved

\* the displacements one constraint applies to its endpoints (before the
\* isLocked tests): zero when it is within tolerance; at zero length the
\* direction normalize returns is the zero vector
constraintCorrection(pos1, pos2, m1, m2, targetLength, stiffness) ==
  LET currentDist == distance(pos1, pos2)
      diff == currentDist - targetLength
      direction == normalize(subtract(pos2, pos1))
      correction == scale(direction, Mul(diff, stiffness))
      totalMass == m1 + m2
      p1Ratio == Div(m2, totalMass)
      p2Ratio == Div(m1, totalMass)
  IN IF Abs(diff) < Pct(1)
     THEN [d1 |-> Vec(0, 0), d2 |-> Vec(0, 0)]
     ELSE [d1 |-> Vec(Mul(correction.x, p1Ratio), Mul(correction.y, p1Ratio)),
           d2 |-> Vec(Mul(correction.x, p2Ratio), Mul(correction.y, p2Ratio))]

\* one constraint of the forEach: both endpoints looked up by id
satisfyOne(ps, con) ==
  LET i1 == IndexOfId(ps, con.p1Id)
      i2 == IndexOfId(ps, con.p2Id)
  IN IF i1 = 0 \/ i2 = 0 THEN ps
     ELSE LET targetLength == IF con.isMuscle THEN con.currentLength ELSE con.restLength
              d == constraintCorrection(ps[i1].pos, ps[i2].pos, ps[i1].mass, ps[i2].mass,
                                        targetLength, con.stiffness)
              ps1 == IF ps[i1].isLocked THEN ps
                     ELSE [ps EXCEPT ![i1].pos = Vec(ps[i1].pos.x + d.d1.x, ps[i1].pos.y + d.d1.y)]
          IN IF ps1[i2].isLocked THEN ps1
             ELSE [ps1 EXCEPT ![i2].pos = Vec(ps1[i2].pos.x - d.d2.x, ps1[i2].pos.y - d.d2.y)]

RECURSIVE satisfyPass(_, _)
satisfyPass(ps, cons) ==
  IF cons = <<>> THEN ps ELSE satisfyPass(satisfyOne(ps, Head(cons)), Tail(cons))

RECURSIVE satisfyConstraints(_, _, _)
satisfyConstraints(cons, ps, iterations) ==
  IF iterations <= 0 THEN ps
  ELSE satisfyConstraints(cons, satisfyPass(ps, cons), iterations - 1)

PRESERVE_UPWARD_DAMP == Pct(95)
APPROX_DT == (16 * Scale) \div 1000

\* a ground response that lifts the particle half of the way to the line
groundParticleHalfway(p, ground) ==
  [p EXCEPT !.pos = Vec(p.pos.x, p.pos.y - (p.pos.y - (ground.y - p.radius)) \div 2)]

\* the ground response of one unlocked particle below the ground line
groundParticle(p, ground) ==
  LET newPosY == ground.y - p.radius
      vx == p.pos.x - p.oldPos.x
      vy == p.pos.y - p.oldPos.y
      frictionForce == Mul(vx, ground.friction)
      newOldPosY == IF vy < 0 THEN newPosY - Mul(vy, PRESERVE_UPWARD_DAMP)
                    ELSE newPosY + Mul(vy, ground.restitution)
      newOldPosX == p.pos.x - vx + frictionForce
  IN [p EXCEPT !.pos = Vec(p.pos.x, newPosY),
               !.oldPos = Vec(newOldPosX, newOldPosY),
               !.velocity = Vec(Div(p.pos.x - newOldPosX, APPROX_DT),
                                Div(newPosY - newOldPosY, APPROX_DT))]

\* a ground collision that moves pinned particles too
groundCollisionOfAll(ps, ground) ==
  [i \in 1..Len(ps) |->
     IF ps[i].pos.y <= ground.y - ps[i].radius THEN ps[i]
     ELSE groundParticle(ps[i], ground)]

\* a ground stage that does nothing
groundCollisionSkipped(ps, ground) == ps

handleGroundCollision(ps, ground) ==
  [i \in 1..Len(ps) |->
     IF ps[i].isLocked \/ ps[i].pos.y <= ground.y - ps[i].radius THEN ps[i]
     ELSE groundParticle(ps[i], ground)]

\* one wall against one unlocked particle
wallParticle(p, wall) ==
  LET distToWall == p.pos.x - wall.x
  IN IF Abs(distToWall) < p.radius /\ Mul(distToWall, wall.normal.x) < 0
     THEN LET newX == wall.x + Mul(wall.normal.x, p.radius)
              vx == newX - p.oldPos.x
          IN [p EXCEPT !.pos = Vec(newX, p.pos.y),
                       !.oldPos = Vec(newX - Mul(vx, Pct(50)), p.oldPos.y)]
     ELSE p

RECURSIVE wallsParticle(_, _)
wallsParticle(p, walls) ==
  IF walls = <<>> THEN p ELSE wallsParticle(wallParticle(p, Head(walls)), Tail(walls))

handleWallCollision(ps, walls) ==
  [i \in 1..Len(ps) |-> IF ps[i].isLocked THEN ps[i] ELSE wallsParticle(ps[i], walls)]

checkTargetZone(p, targetZone) ==
  /\ p.pos.x >= targetZone.x /\ p.pos.x <= targetZone.x + targetZone.width
  /\ p.pos.y >= targetZone.y /\ p.pos.y <= targetZone.y + targetZone.height

checkCreatureTargetZone(creature, targetZone) ==
  \E i \in 1..Len(creature.particles) : checkTargetZone(creature.particles[i], targetZone)

checkHeadGroundAndKill(creature, groundY) ==
  LET h == IndexOfId(creature.particles, "head")
  IN IF creature.isDead \/ h = 0 THEN creature
     ELSE IF creature.particles[h].pos.y >= groundY - creature.particles[h].radius
          THEN [creature EXCEPT !.isDead = TRUE]
          ELSE creature

\* the forEach accumulation of mass ("m"), pos.x * mass ("x") or pos.y * mass ("y")
RECURSIVE SumOver(_, _, _)
SumOver(ps, axis, acc) ==
  IF ps = <<>> THEN acc
  ELSE SumOver(Tail(ps), axis,
               acc + (IF axis = "m" THEN Head(ps).mass
                      ELSE IF axis = "x" THEN Mul(Head(ps).pos.x, Head(ps).mass)
                      ELSE Mul(Head(ps).pos.y, Head(ps).mass)))

calculateCenterOfMass(ps) ==
  LET totalMass == SumOver(ps, "m", 0)
  IN IF totalMass = 0 THEN Vec(0, 0)
     ELSE Vec(Div(SumOver(ps, "x", 0), totalMass), Div(SumOver(ps, "y", 0), totalMass))

(***************************************************************************)
(* Creatures and the per-creature tick.  A creature is [particles,         *)
(* constraints, muscles, isDead, startPos, currentPos, maxDistance,         *)
(* minHeadY, hasMinHeadY, reachedTarget]; hasMinHeadY = FALSE is            *)
(* minHeadY === undefined.                                                  *)
(***************************************************************************)
Particle(id, x, y, mass, radius, isLocked) ==
  [id |-> id, pos |-> Vec(x, y), oldPos |-> Vec(x, y), mass |-> mass,
   radius |-> radius, isLocked |-> isLocked, velocity |-> Vec(0, 0)]

Bone(p1Id, p2Id, restLength, stiffness) ==
  [p1Id |-> p1Id, p2Id |-> p2Id, restLength |-> restLength, stiffness |-> stiffness,
   isMuscle |-> FALSE]

\* a topology muscle with a gene applied (applyGenomeToMuscles)
MuscleOf(p1Id, p2Id, baseLength, stiffness, gene) ==
  [p1Id |-> p1Id, p2Id |-> p2Id, restLength |-> baseLength, stiffness |-> stiffness,
   isMuscle |-> TRUE, baseLength |-> baseLength, amplitude |-> gene.amplitude,
   frequency |-> gene.frequency, phase |-> gene.phase, currentLength |-> baseLength]

createCreatureFromTopology(particles, constraints, muscles) ==
  LET centerOfMass == calculateCenterOfMass(particles)
  IN [particles |-> particles, constraints |-> constraints, muscles |-> muscles,
      isDead |-> FALSE, startPos |-> centerOfMass, currentPos |-> centerOfMass,
      maxDistance |-> centerOfMass.x, minHeadY |-> 0, hasMinHeadY |-> FALSE,
      reachedTarget |-> FALSE]

\* the constants of the advanced-learning page; the model's timestep is
\* coarser than the source's 1/60 so that dt * dt is a fixed-point number
GRAVITY == 200 * Scale
FIXED_TIMESTEP == Pct(10)
MUSCLE_STIFFNESS == Pct(90)
GROUND_FRICTION == Pct(70)
groundY == 40 * Scale

\* what a tick is given: ground, walls, target zone and the stepping options
OrchestratorEnv ==
  [ground |-> [y |-> groundY, friction |-> GROUND_FRICTION, restitution |-> Pct(30)],
   walls |-> <<[x |-> 0, normal |-> Vec(Scale, 0)]>>,
   targetZone |-> [x |-> 18 * Scale, y |-> 37 * Scale, width |-> 4 * Scale,
                   height |-> 3 * Scale],
   force |-> Vec(0, GRAVITY), dt |-> FIXED_TIMESTEP, airResistance |-> Pct(2),
   constraintIterations |-> 3, muscleStiffness |-> MUSCLE_STIFFNESS]

\* a bookkeeping that keeps the latest values in place of the extremes
bookkeepingLatest(creature, targetZone) ==
  LET h == IndexOfId(creature.particles, "head")
      com == calculateCenterOfMass(creature.particles)
  IN [creature EXCEPT
        !.minHeadY = IF h = 0 THEN @ ELSE creature.particles[h].pos.y,
        !.hasMinHeadY = IF h = 0 THEN @ ELSE TRUE,
        !.currentPos = com,
        !.maxDistance = com.x,
        !.reachedTarget = checkCreatureTargetZone(creature, targetZone)]

\* the bookkeeping of the orchestrator's tick: minHeadY, currentPos,
\* maxDistance, reachedTarget
bookkeeping(creature, targetZone) ==
  LET h == IndexOfId(creature.particles, "head")
      headY == creature.particles[h].pos.y
      com == calculateCenterOfMass(creature.particles)
  IN [creature EXCEPT
        !.minHeadY = IF h = 0 THEN @
                     ELSE Min(IF creature.hasMinHeadY THEN @ ELSE headY, headY),
        !.hasMinHeadY = IF h = 0 THEN @ ELSE TRUE,
        !.currentPos = com,
        !.maxDistance = Max(@, com.x),
        !.reachedTarget = IF checkCreatureTargetZone(creature, targetZone) THEN TRUE ELSE @]

\* one stage of a tick applied to one creature at simulation time `time`;
\* setStiffness: the caller overwrites every muscle's stiffness first
ApplyStage(stage, creature, env, time, setStiffness) ==
  CASE stage = "oscillator" ->
         [creature EXCEPT !.muscles =
            LET updated == updateMuscles(creature.muscles, time)
            IN IF setStiffness
               THEN [i \in 1..Len(updated) |->
                       [updated[i] EXCEPT !.stiffness = env.muscleStiffness]]
               ELSE updated]
    [] stage = "verlet" ->
         [creature EXCEPT !.particles =
            integrateVerlet(creature.particles, env.force, env.dt, env.airResistance)]
    [] stage = "solver" ->
         [creature EXCEPT !.particles =
            satisfyConstraints(creature.constraints \o creature.muscles,
                               creature.particles, env.constraintIterations)]
    [] stage = "ground" ->
         [creature EXCEPT !.particles = handleGroundCollision(creature.particles, env.ground)]
    [] stage = "wall" ->
         [creature EXCEPT !.particles = handleWallCollision(creature.particles, env.walls)]
    [] stage = "death" -> checkHeadGroundAndKill(creature, env.ground.y)
    [] stage = "bookkeeping" -> bookkeeping(creature, env.targetZone)

RECURSIVE RunStages(_, _, _, _, _)
RunStages(stages, creature, env, time, setStiffness) ==
  IF stages = <<>> THEN creature
  ELSE RunStages(Tail(stages), ApplyStage(Head(stages), creature, env, time, setStiffness),
                 env, time, setStiffness)

\* the statements of the orchestrator's loop body for a live creature
OrchestratorStages ==
  <<"oscillator", "verlet", "solver", "ground", "wall", "death", "bookkeeping">>

\* the stages a creature is taken through by one tick of the running phase
runningTickStages(creature) == IF creature.isDead THEN <<>> ELSE OrchestratorStages

runningTickCreature(creature, env, time) ==
  RunStages(runningTickStages(creature), creature, env, time, TRUE)

\* one pass of the while loop of the running phase over the population
runningTick(list, env, time) ==
  [i \in 1..Len(list) |-> runningTickCreature(list[i], env, time)]

\* stepPhysics, TypeScript fallback
stepPhysicsStages(skipMuscleUpdate) ==
  IF skipMuscleUpdate THEN <<"verlet", "solver", "ground", "wall">>
  ELSE <<"oscillator", "verlet", "solver", "ground", "wall">>

stepPhysics(creature, env, time, skipMuscleUpdate) ==
  RunStages(stepPhysicsStages(skipMuscleUpdate), creature, env, time, FALSE)

(***************************************************************************)
(* The WASM linear memory and the batch kernel.  Memory is a map from f64   *)
(* cells (byte offset / 8) to numbers; a cell never written reads 0.  A     *)
(* boolean is stored as 0 or 1.0, a particle index as a number.             *)
(***************************************************************************)
PARTICLE_STRIDE == 72
CONSTRAINT_STRIDE == 80
WALL_STRIDE == 24
\* the metadata record as the glue lays it out
METADATA_STRIDE == 96
\* the metadata record as step_all_creatures and post_step_creatures index it
KERNEL_METADATA_STRIDE == 128

Load(mem, off) == IF (off \div 8) \in DOMAIN mem THEN mem[off \div 8] ELSE 0

Store(mem, off, v) == ((off \div 8) :> v) @@ mem

\* consecutive f64 stores from off on
StoreSeq(mem, off, values) ==
  [c \in {off \div 8 + k - 1 : k \in 1..Len(values)} |-> values[c - off \div 8 + 1]] @@ mem

Flag(b) == IF b THEN Scale ELSE 0
\* i32.trunc_sat_f64_u
TruncU(v) == IF v <= 0 THEN 0 ELSE Floor(v)

computeLayout(numCreatures, numParticles, numConstraintsOnly, numMuscles, numWalls) ==
  LET numConstraintsTotal == numConstraintsOnly + numMuscles
      creatureStride == numParticles * PARTICLE_STRIDE + numConstraintsTotal * CONSTRAINT_STRIDE
      wallsOffset == numCreatures * creatureStride
      metadataOffset == wallsOffset + numWalls * WALL_STRIDE
  IN [creaturesOffset |-> 0, wallsOffset |-> wallsOffset,
      metadataOffset |-> metadataOffset, creatureStride |-> creatureStride,
      numParticles |-> numParticles, numConstraintsTotal |-> numConstraintsTotal,
      numConstraintsOnly |-> numConstraintsOnly, numMuscles |-> numMuscles,
      totalBytes |-> metadataOffset + numCreatures * METADATA_STRIDE]

\* idToIndex.get(id) ?? 0, the index counted from 0
IdToIndex(first, id) == Max(IndexOfId(first.particles, id) - 1, 0)

ParticleCells(p) ==
  <<p.pos.x, p.pos.y, p.oldPos.x, p.oldPos.y, p.mass, p.radius, Flag(p.isLocked),
    p.velocity.x, p.velocity.y>>

BoneCells(first, con) ==
  <<IdToIndex(first, con.p1Id) * Scale, IdToIndex(first, con.p2Id) * Scale,
    con.restLength, con.stiffness, con.restLength, 0, 0, 0, 0, 0>>

MuscleCells(first, m, muscleStiffness) ==
  <<IdToIndex(first, m.p1Id) * Scale, IdToIndex(first, m.p2Id) * Scale,
    m.restLength, muscleStiffness, m.currentLength, Scale, m.baseLength,
    m.amplitude, m.frequency, m.phase>>

\* headIdx counts from 0
MetadataCells(creature, headIdx, targetZone) ==
  <<Flag(creature.isDead), headIdx * Scale, creature.startPos.x,
    creature.currentPos.x, creature.currentPos.y, creature.maxDistance,
    IF creature.hasMinHeadY THEN creature.minHeadY
    ELSE creature.particles[headIdx + 1].pos.y,
    Flag(creature.reachedTarget), targetZone.x, targetZone.y, targetZone.width,
    targetZone.height>>

\* records of equal stride written back to back from off on
RECURSIVE StoreRecords(_, _, _, _)
StoreRecords(mem, off, stride, records) ==
  IF records = <<>> THEN mem
  ELSE StoreRecords(StoreSeq(mem, off, Head(records)), off + stride, stride, Tail(records))

\* the body of syncToWasm's loop for creature c (counted from 0)
syncCreatureToWasm(mem, population, c, targetZone, layout, headIdx, muscleStiffness) ==
  LET creature == population[c + 1]
      first == population[1]
      baseOff == layout.creaturesOffset + c * layout.creatureStride
      constraintsOff == baseOff + layout.numParticles * PARTICLE_STRIDE
      m1 == StoreRecords(mem, baseOff, PARTICLE_STRIDE,
                         [i \in 1..layout.numParticles |-> ParticleCells(creature.particles[i])])
      m2 == StoreRecords(m1, constraintsOff, CONSTRAINT_STRIDE,
                         [i \in 1..layout.numConstraintsOnly |->
                            BoneCells(first, creature.constraints[i])])
      m3 == StoreRecords(m2, constraintsOff + layout.numConstraintsOnly * CONSTRAINT_STRIDE,
                         CONSTRAINT_STRIDE,
                         [i \in 1..layout.numMuscles |->
                            MuscleCells(first, creature.muscles[i], muscleStiffness)])
  IN StoreSeq(m3, layout.metadataOffset + c * METADATA_STRIDE,
              MetadataCells(creature, headIdx, targetZone))

RECURSIVE syncCreaturesToWasm(_, _, _, _, _, _, _)
syncCreaturesToWasm(mem, population, c, targetZone, layout, headIdx, muscleStiffness) ==
  IF c >= Len(population) THEN mem
  ELSE syncCreaturesToWasm(
         syncCreatureToWasm(mem, population, c, targetZone, layout, headIdx, muscleStiffness),
         population, c + 1, targetZone, layout, headIdx, muscleStiffness)

syncToWasm(mem, population, walls, targetZone, layout, headIdx, muscleStiffness) ==
  StoreRecords(
    syncCreaturesToWasm(mem, population, 0, targetZone, layout, headIdx, muscleStiffness),
    layout.wallsOffset, WALL_STRIDE,
    [i \in 1..Len(walls) |-> <<walls[i].x, walls[i].normal.x, walls[i].normal.y>>])

\* what syncFromWasm reads back into creature c (counted from 0)
syncCreatureFromWasm(mem, creature, c, layout) ==
  LET baseOff == layout.creaturesOffset + c * layout.creatureStride
      metaOff == layout.metadataOffset + c * METADATA_STRIDE
      constraintsOff == baseOff + layout.numParticles * PARTICLE_STRIDE
  IN [creature EXCEPT
        !.isDead = Load(mem, metaOff) # 0,
        !.currentPos = Vec(Load(mem, metaOff + 24), Load(mem, metaOff + 32)),
        !.maxDistance = Load(mem, metaOff + 40),
        !.minHeadY = Load(mem, metaOff + 48),
        !.hasMinHeadY = TRUE,
        !.reachedTarget = Load(mem, metaOff + 56) # 0,
        !.particles =
          [i \in 1..Len(creature.particles) |->
             IF i > layout.numParticles THEN creature.particles[i]
             ELSE LET off == baseOff + (i - 1) * PARTICLE_STRIDE
                  IN [creature.particles[i] EXCEPT
                        !.pos = Vec(Load(mem, off), Load(mem, off + 8)),
                        !.oldPos = Vec(Load(mem, off + 16), Load(mem, off + 24)),
                        !.velocity = Vec(Load(mem, off + 56), Load(mem, off + 64))]],
        !.muscles =
          [i \in 1..Len(creature.muscles) |->
             IF i > layout.numMuscles THEN creature.muscles[i]
             ELSE [creature.muscles[i] EXCEPT !.currentLength =
                     Load(mem, constraintsOff
                               + (layout.numConstraintsOnly + i - 1) * CONSTRAINT_STRIDE + 32)]]]

syncFromWasm(mem, population, layout) ==
  [i \in 1..Len(population) |-> syncCreatureFromWasm(mem, population[i], i - 1, layout)]

(***************************************************************************)
(* The kernel (physics-scripts.wat).  Each function takes the memory and    *)
(* returns the memory after the call.  The per-particle and per-constraint  *)
(* arithmetic is the same expression as in the TypeScript stage, evaluated  *)
(* on the values loaded from memory.                                        *)
(***************************************************************************)
LoadParticle(mem, off) ==
  [id |-> "", pos |-> Vec(Load(mem, off), Load(mem, off + 8)),
   oldPos |-> Vec(Load(mem, off + 16), Load(mem, off + 24)),
   mass |-> Load(mem, off + 32), radius |-> Load(mem, off + 40),
   isLocked |-> Load(mem, off + 48) # 0,
   velocity |-> Vec(Load(mem, off + 56), Load(mem, off + 64))]

\* the stores of pos, oldPos and velocity of one particle
StoreMotion(mem, off, p) ==
  StoreSeq(StoreSeq(mem, off, <<p.pos.x, p.pos.y, p.oldPos.x, p.oldPos.y>>),
           off + 56, <<p.velocity.x, p.velocity.y>>)

\* first loop of integrate_verlet: isLocked (+48) is tested first
RECURSIVE verlet_loop(_, _, _, _, _, _)
verlet_loop(mem, particlesOffset, numParticles, i, force, dt) ==
  LET off == particlesOffset + i * 72
  IN IF i >= numParticles THEN mem
     ELSE IF Load(mem, off + 48) # 0
          THEN verlet_loop(mem, particlesOffset, numParticles, i + 1, force, dt)
          ELSE verlet_loop(StoreMotion(mem, off, verletParticle(LoadParticle(mem, off), force, dt)),
                           particlesOffset, numParticles, i + 1, force, dt)

\* second loop of integrate_verlet (air resistance)
RECURSIVE damp_loop(_, _, _, _, _)
damp_loop(mem, particlesOffset, numParticles, i, airResistance) ==
  LET off == particlesOffset + i * 72
  IN IF i >= numParticles THEN mem
     ELSE IF Load(mem, off + 48) # 0
          THEN damp_loop(mem, particlesOffset, numParticles, i + 1, airResistance)
          ELSE damp_loop(StoreMotion(mem, off, dampParticle(LoadParticle(mem, off), airResistance)),
                         particlesOffset, numParticles, i + 1, airResistance)

integrate_verlet(mem, particlesOffset, numParticles, force, dt, airResistance) ==
  IF numParticles = 0 THEN mem
  ELSE LET moved == verlet_loop(mem, particlesOffset, numParticles, 0, force, dt)
       IN IF airResistance > 0
          THEN damp_loop(moved, particlesOffset, numParticles, 0, airResistance)
          ELSE moved

RECURSIVE update_muscles(_, _, _, _, _)
update_muscles(mem, constraintsOffset, numMuscles, i, time) ==
  LET off == constraintsOffset + i * 80
  IN IF i >= numMuscles THEN mem
     ELSE IF Load(mem, off + 40) = 0
          THEN update_muscles(mem, constraintsOffset, numMuscles, i + 1, time)
          ELSE update_muscles(
                 Store(mem, off + 32,
                       oscillatedLength(Load(mem, off + 48), Load(mem, off + 56),
                                        Load(mem, off + 64), Load(mem, off + 72), time)),
                 constraintsOffset, numMuscles, i + 1, time)

\* the two endpoints of the constraint at coff, as satisfy_constraints loads them
LoadEndpoints(mem, particlesOffset, coff) ==
  LET p1Off == particlesOffset + TruncU(Load(mem, coff)) * 72
      p2Off == particlesOffset + TruncU(Load(mem, coff + 8)) * 72
  IN [p1Off |-> p1Off, p2Off |-> p2Off,
      p1 |-> LoadParticle(mem, p1Off), p2 |-> LoadParticle(mem, p2Off)]

\* the constraint is left alone: its endpoints e are at zero distance, or
\* within tolerance of the length at +32
satisfy_skips(e, targetLength) ==
  LET dist == distance(e.p1.pos, e.p2.pos)
  IN dist = 0 \/ Abs(dist - targetLength) < Pct(1)

\* the stores of one correction d into the endpoints e that are not locked
satisfy_move(mem, e, d) ==
  LET m1 == IF e.p1.isLocked THEN mem
            ELSE StoreSeq(mem, e.p1Off, <<e.p1.pos.x + d.d1.x, e.p1.pos.y + d.d1.y>>)
  IN IF e.p2.isLocked THEN m1
     ELSE StoreSeq(m1, e.p2Off, <<e.p2.pos.x - d.d2.x, e.p2.pos.y - d.d2.y>>)

\* the correction of one constraint of the inner loop of satisfy_constraints:
\* the length aimed at is the one at +32, the stiffness the one at +24
satisfy_one(mem, e, targetLength, stiffness) ==
  satisfy_move(mem, e, constraintCorrection(e.p1.pos, e.p2.pos, e.p1.mass, e.p2.mass,
                                            targetLength, stiffness))

RECURSIVE satisfy_pass(_, _, _, _, _)
satisfy_pass(mem, particlesOffset, constraintsOffset, numConstraints, c) ==
  LET coff == constraintsOffset + c * 80
  IN IF c >= numConstraints THEN mem
     ELSE IF satisfy_skips(LoadEndpoints(mem, particlesOffset, coff), Load(mem, coff + 32))
          THEN satisfy_pass(mem, particlesOffset, constraintsOffset, numConstraints, c + 1)
          ELSE satisfy_pass(satisfy_one(mem, LoadEndpoints(mem, particlesOffset, coff),
                                        Load(mem, coff + 32), Load(mem, coff + 24)),
                            particlesOffset, constraintsOffset, numConstraints, c + 1)

RECURSIVE satisfy_constraints(_, _, _, _, _)
satisfy_constraints(mem, particlesOffset, constraintsOffset, numConstraints, iterations) ==
  IF iterations <= 0 THEN mem
  ELSE satisfy_constraints(
         satisfy_pass(mem, particlesOffset, constraintsOffset, numConstraints, 0),
         particlesOffset, constraintsOffset, numConstraints, iterations - 1)

RECURSIVE ground_collision(_, _, _, _, _)
ground_collision(mem, particlesOffset, numParticles, i, ground) ==
  LET off == particlesOffset + i * 72
      p == LoadParticle(mem, off)
  IN IF i >= numParticles THEN mem
     ELSE IF p.isLocked \/ p.pos.y <= ground.y - p.radius
          THEN ground_collision(mem, particlesOffset, numParticles, i + 1, ground)
          ELSE ground_collision(StoreMotion(mem, off, groundParticle(p, ground)),
                                particlesOffset, numParticles, i + 1, ground)

\* the walls as wall_collision reads them
LoadWalls(mem, wallsOffset, numWalls) ==
  [w \in 1..numWalls |->
     [x |-> Load(mem, wallsOffset + (w - 1) * 24),
      normal |-> Vec(Load(mem, wallsOffset + (w - 1) * 24 + 8),
                     Load(mem, wallsOffset + (w - 1) * 24 + 16))]]

RECURSIVE wall_collision(_, _, _, _, _, _)
wall_collision(mem, particlesOffset, numParticles, i, wallsOffset, numWalls) ==
  LET off == particlesOffset + i * 72
      p == LoadParticle(mem, off)
      q == wallsParticle(p, LoadWalls(mem, wallsOffset, numWalls))
  IN IF i >= numParticles THEN mem
     ELSE IF p.isLocked
          THEN wall_collision(mem, particlesOffset, numParticles, i + 1, wallsOffset, numWalls)
          ELSE wall_collision(StoreSeq(mem, off, <<q.pos.x, q.pos.y, q.oldPos.x>>),
                              particlesOffset, numParticles, i + 1, wallsOffset, numWalls)

\* the arguments both kernel entry points are called with
KernelArgs(layout, numCreatures, numWalls, env) ==
  [creaturesOffset |-> layout.creaturesOffset, numCreatures |-> numCreatures,
   numParticles |-> layout.numParticles, numConstraints |-> layout.numConstraintsTotal,
   numMuscles |-> layout.numMuscles, wallsOffset |-> layout.wallsOffset,
   numWalls |-> numWalls, metadataOffset |-> layout.metadataOffset,
   ground |-> env.ground, force |-> env.force, dt |-> env.dt,
   airResistance |-> env.airResistance, constraintIterations |-> env.constraintIterations]

\* the five calls step_all_creatures makes for a creature it does not skip
step_one_creature(mem, a, c, time) ==
  LET creatureStride == a.numParticles * 72 + a.numConstraints * 80
      particlesOff == a.creaturesOffset + c * creatureStride
      constraintsOff == particlesOff + a.numParticles * 72
      musclesOff == constraintsOff + (a.numConstraints - a.numMuscles) * 80
      m1 == update_muscles(mem, musclesOff, a.numMuscles, 0, time)
      m2 == integrate_verlet(m1, particlesOff, a.numParticles, a.force, a.dt, a.airResistance)
      m3 == satisfy_constraints(m2, particlesOff, constraintsOff, a.numConstraints,
                                a.constraintIterations)
      m4 == ground_collision(m3, particlesOff, a.numParticles, 0, a.ground)
  IN wall_collision(m4, particlesOff, a.numParticles, 0, a.wallsOffset, a.numWalls)

RECURSIVE step_all_creatures(_, _, _, _)
step_all_creatures(mem, a, c, time) ==
  IF c >= a.numCreatures THEN mem
  ELSE IF Load(mem, a.metadataOffset + c * KERNEL_METADATA_STRIDE) # 0
       THEN step_all_creatures(mem, a, c + 1, time)
       ELSE step_all_creatures(step_one_creature(mem, a, c, time), a, c + 1, time)

\* the particles of the block at particlesOff, as the bookkeeping reads them
LoadParticles(mem, particlesOff, numParticles) ==
  [p \in 1..numParticles |-> LoadParticle(mem, particlesOff + (p - 1) * 72)]

\* the metadata stores of post_step_creatures for a creature whose head is
\* above the ground: minHeadY (+48), currentPos (+24, +32), maxDistance (+40),
\* reachedTarget (+56), then the gait counters airborneSteps (+96),
\* totalSteps (+104), headYSum (+112) and headYSumSq (+120).  Each store
\* reads only the cell it writes.
post_step_metadata(mem, metaOff, headY, ps, zone, airborne) ==
  LET totalMass == SumOver(ps, "m", 0)
      centerX == Div(SumOver(ps, "x", 0), totalMass)
      centerY == Div(SumOver(ps, "y", 0), totalMass)
      inZone == \E p \in 1..Len(ps) : checkTargetZone(ps[p], zone)
  IN StoreSeq(
       StoreSeq(mem, metaOff + 24,
                <<centerX, centerY,
                  Max(Load(mem, metaOff + 40), centerX),
                  Min(Load(mem, metaOff + 48), headY),
                  IF Load(mem, metaOff + 56) = 0 /\ inZone THEN Scale
                  ELSE Load(mem, metaOff + 56)>>),
       metaOff + 96,
       <<Load(mem, metaOff + 96) + (IF airborne THEN Scale ELSE 0),
         Load(mem, metaOff + 104) + Scale,
         Load(mem, metaOff + 112) + headY,
         Load(mem, metaOff + 120) + Mul(headY, headY)>>)

\* the particle at off is above the ground line
foot_airborne(mem, off, ground) == Load(mem, off + 8) < ground.y - Load(mem, off + 40)

\* post_step_creatures for a creature it does not skip: the head-death test
\* first, and no bookkeeping for a creature that dies
post_step_one(mem, a, c, leftFootIdx, rightFootIdx) ==
  LET particlesOff == a.creaturesOffset + c * (a.numParticles * 72 + a.numConstraints * 80)
      metaOff == a.metadataOffset + c * KERNEL_METADATA_STRIDE
      headOff == particlesOff + TruncU(Load(mem, metaOff + 8)) * 72
  IN IF Load(mem, headOff + 8) >= a.ground.y - Load(mem, headOff + 40)
     THEN Store(mem, metaOff, Scale)
     ELSE post_step_metadata(
            mem, metaOff, Load(mem, headOff + 8),
            LoadParticles(mem, particlesOff, a.numParticles),
            [x |-> Load(mem, metaOff + 64), y |-> Load(mem, metaOff + 72),
             width |-> Load(mem, metaOff + 80), height |-> Load(mem, metaOff + 88)],
            /\ foot_airborne(mem, particlesOff + leftFootIdx * 72, a.ground)
            /\ foot_airborne(mem, particlesOff + rightFootIdx * 72, a.ground))

RECURSIVE post_step_creatures(_, _, _, _, _)
post_step_creatures(mem, a, c, leftFootIdx, rightFootIdx) ==
  IF c >= a.numCreatures THEN mem
  ELSE IF Load(mem, a.metadataOffset + c * KERNEL_METADATA_STRIDE) # 0
       THEN post_step_creatures(mem, a, c + 1, leftFootIdx, rightFootIdx)
       ELSE post_step_creatures(post_step_one(mem, a, c, leftFootIdx, rightFootIdx),
                                a, c + 1, leftFootIdx, rightFootIdx)

\* the loop of stepPhysicsBatch: step steps still to run; post_step_creatures
\* is called with six arguments, so its two foot indices arrive as 0
RECURSIVE batchLoop(_, _, _, _)
batchLoop(mem, a, steps, time) ==
  IF steps <= 0 THEN mem
  ELSE batchLoop(post_step_creatures(step_all_creatures(mem, a, 0, time), a, 0, 0, 0),
                 a, steps - 1, time + a.dt)

\* a failure that has already marked every creature dead
batchFailedAfterWrites(mem, population) ==
  [ok |-> FALSE,
   creatures |-> [i \in 1..Len(population) |-> [population[i] EXCEPT !.isDead = TRUE]],
   mem |-> mem]

\* what stepPhysicsBatch leaves behind when it returns false
batchFailed(mem, population) == [ok |-> FALSE, creatures |-> population, mem |-> mem]

\* the end of stepPhysicsBatch: syncFromWasm on the stepped memory, return true
batchReadBack(stepped, population, layout) ==
  [ok |-> TRUE, creatures |-> syncFromWasm(stepped, population, layout), mem |-> stepped]

\* the try block of stepPhysicsBatch; a head index of -1 makes syncToWasm
\* throw on a creature without minHeadY
batchRun(mem, population, env, numSteps, startTime, layout, headIdx) ==
  IF headIdx < 0 /\ \E i \in 1..Len(population) : ~population[i].hasMinHeadY
  THEN batchFailed(mem, population)
  ELSE batchReadBack(
         batchLoop(syncToWasm(mem, population, env.walls, env.targetZone, layout, headIdx,
                              env.muscleStiffness),
                   KernelArgs(layout, Len(population), Len(env.walls), env),
                   numSteps, startTime),
         population, layout)

\* stepPhysicsBatch with the kernel loaded: [ok, creatures, mem]
stepPhysicsBatch(mem, population, env, numSteps, startTime) ==
  IF Len(population) = 0 \/ numSteps <= 0
  THEN batchFailed(mem, population)
  ELSE batchRun(mem, population, env, numSteps, startTime,
                computeLayout(Len(population), Len(population[1].particles),
                              Len(population[1].constraints), Len(population[1].muscles),
                              Len(env.walls)),
                IndexOfId(population[1].particles, "head") - 1)

\* stepPhysicsBatch from its first line: module is what getPhysicsWasmModule
\* returns ("none": no module, "noExports": one without the batch exports)
stepPhysicsBatchOn(module, mem, population, env, numSteps, startTime) ==
  IF module # "loaded" THEN batchFailed(mem, population)
  ELSE stepPhysicsBatch(mem, population, env, numSteps, startTime)

(***************************************************************************)
(* Sample creatures: a head over a hip over a foot, one bone (head-hip)      *)
(* and one muscle (hip-foot).                                               *)
(***************************************************************************)
WalkerGene == Gene("m1", Pct(30), Pct(100), 0)

Topology(headX, headY, hipX, hipY, footX, footY, hipLocked) ==
  createCreatureFromTopology(
    <<Particle("head", headX * Scale, headY * Scale, Scale, 2 * Scale, FALSE),
      Particle("hip", hipX * Scale, hipY * Scale, Scale, Scale, hipLocked),
      Particle("foot", footX * Scale, footY * Scale, Scale, Scale, FALSE)>>,
    <<Bone("head", "hip", 4 * Scale, Scale)>>,
    <<MuscleOf("hip", "foot", 4 * Scale, MUSCLE_STIFFNESS, WalkerGene)>>)

\* upright, far above the ground
Standing == Topology(10, 28, 10, 32, 10, 36, FALSE)
\* stretched out just above the ground, the head over the target zone
Lying == Topology(19, 35, 15, 36, 11, 37, FALSE)
\* its hip pinned below the ground line, its foot next to the wall
Pinned == Topology(4, 35, 2, 40, 0, 38, TRUE)
\* one that died earlier in the generation
Fallen ==
  [Lying EXCEPT !.isDead = TRUE, !.hasMinHeadY = TRUE, !.minHeadY = 35 * Scale]

Kinds == {Standing, Lying, Pinned, Fallen}
\* head, hip and foot on one point: bone and muscle have zero length
Folded == Topology(12, 30, 12, 30, 12, 30, FALSE)

MaxCreatures == 2
MaxTicks == 3
MaxCalls == 3

Populations == UNION {[1..n -> Kinds] : n \in 1..MaxCreatures}

(***************************************************************************)
(* The stepping paths as a state machine.  tsPop is stepped by the          *)
(* orchestrator's loop, batchPop (the same population) by stepPhysicsBatch; *)
(* batchPop2 is a second batch run whose creature `focus` starts as in      *)
(* batchPop while its other creatures may differ.  solo is one creature     *)
(* handed to stepPhysics or to single stage calls.                          *)
(***************************************************************************)
\* one pass of the running phase's while loop
TsTick ==
  /\ tsPop # <<>>
  /\ tsTicks < MaxTicks
  /\ tsPop' = runningTick(tsPop, OrchestratorEnv, tsTicks * FIXED_TIMESTEP)
  /\ stageLog' = [i \in 1..Len(tsPop) |->
                    [live |-> ~tsPop[i].isDead, stages |-> runningTickStages(tsPop[i])]]
  /\ tsTicks' = tsTicks + 1
  /\ UNCHANGED <<batchPop, batchPop2, wasmMemory, wasmMemory2, batchTicks, focus, solo, solo0, calls,
                 workerVars, threadVars, orchVars, libVars, frameVars>>

\* both batch calls returned true: their populations and memories
BatchReturns(r, r2) ==
  /\ r.ok /\ r2.ok
  /\ batchPop' = r.creatures /\ wasmMemory' = r.mem
  /\ batchPop2' = r2.creatures /\ wasmMemory2' = r2.mem

\* one call of stepPhysicsBatch with numSteps = K, made on both batch runs
BatchStep(K) ==
  /\ batchPop # <<>>
  /\ batchTicks + K <= MaxTicks
  /\ BatchReturns(
       stepPhysicsBatch(wasmMemory, batchPop, OrchestratorEnv, K, batchTicks * FIXED_TIMESTEP),
       stepPhysicsBatch(wasmMemory2, batchPop2, OrchestratorEnv, K, batchTicks * FIXED_TIMESTEP))
  /\ batchTicks' = batchTicks + K
  /\ UNCHANGED <<tsPop, tsTicks, focus, solo, solo0, stageLog, calls,
                 workerVars, threadVars, orchVars, libVars, frameVars>>

\* stepPhysics(solo, ...) while the WASM module is not ready
StepPhysicsCall(skipMuscleUpdate) ==
  /\ Len(calls) < MaxCalls
  /\ solo' = stepPhysics(solo, OrchestratorEnv, Len(calls) * FIXED_TIMESTEP, skipMuscleUpdate)
  /\ stageLog' = <<[live |-> TRUE, stages |-> stepPhysicsStages(skipMuscleUpdate)]>>
  /\ calls' = Append(calls, "stepPhysics")
  /\ UNCHANGED <<tsPop, batchPop, batchPop2, wasmMemory, wasmMemory2, tsTicks, batchTicks, focus, solo0,
                 workerVars, threadVars, orchVars, libVars, frameVars>>

\* a single stage called on solo's particles
StageCall(stage, env) ==
  /\ Len(calls) < MaxCalls
  /\ solo' = ApplyStage(stage, solo, env, 0, FALSE)
  /\ calls' = Append(calls, stage)
  /\ UNCHANGED <<tsPop, batchPop, batchPop2, wasmMemory, wasmMemory2, tsTicks, batchTicks, focus, solo0,
                 stageLog, workerVars, threadVars, orchVars, libVars, frameVars>>

\* force, dt and air resistance of the integrateVerlet calls
StageOptions ==
  { [force |-> Vec(0, GRAVITY), dt |-> FIXED_TIMESTEP, airResistance |-> Pct(2)],
    [force |-> Vec(50 * Scale, 0), dt |-> 2 * FIXED_TIMESTEP, airResistance |-> 0],
    [force |-> Vec(-(50 * Scale), -GRAVITY), dt |-> FIXED_TIMESTEP, airResistance |-> Pct(50)] }

CallIntegrateVerlet ==
  \E o \in StageOptions :
    StageCall("verlet", [OrchestratorEnv EXCEPT !.force = o.force, !.dt = o.dt,
                                                !.airResistance = o.airResistance])
CallSatisfyConstraints ==
  \E n \in {1, 3} : StageCall("solver", [OrchestratorEnv EXCEPT !.constraintIterations = n])
CallHandleGroundCollision == StageCall("ground", OrchestratorEnv)
CallHandleWallCollision == StageCall("wall", OrchestratorEnv)

InitPhys ==
  /\ workerAlive = TRUE /\ pending = 0 /\ promises = <<>>
  /\ toWorker = <<>> /\ fromWorker = <<>>
  /\ wPc = "idle" /\ wInput = None /\ wElites = <<>> /\ wParents = <<>>
  /\ wNext = <<>> /\ wP1 = None /\ wP2 = None
  /\ OrchIdle
  /\ LibIdle
  /\ FrameIdle
  /\ tsPop \in Populations
  /\ batchPop = tsPop
  /\ focus \in 1..Len(tsPop)
  /\ batchPop2 \in {p \in Populations : Len(p) = Len(tsPop) /\ p[focus] = tsPop[focus]}
  /\ wasmMemory = <<>> /\ wasmMemory2 = <<>>
  /\ tsTicks = 0 /\ batchTicks = 0
  /\ solo = tsPop[1] /\ solo0 = solo
  /\ stageLog = <<>> /\ calls = <<>>

NextPhys ==
  \/ TsTick
  \/ \E K \in 1..MaxTicks : BatchStep(K)

SpecPhys == InitPhys /\ [][NextPhys]_vars

InitStages ==
  /\ workerAlive = TRUE /\ pending = 0 /\ promises = <<>>
  /\ toWorker = <<>> /\ fromWorker = <<>>
  /\ wPc = "idle" /\ wInput = None /\ wElites = <<>> /\ wParents = <<>>
  /\ wNext = <<>> /\ wP1 = None /\ wP2 = None
  /\ OrchIdle
  /\ LibIdle
  /\ FrameIdle
  /\ solo \in Kinds \cup {Folded} /\ solo0 = solo
  /\ tsPop = <<solo>> /\ batchPop = <<>> /\ batchPop2 = <<>>
  /\ wasmMemory = <<>> /\ wasmMemory2 = <<>>
  /\ tsTicks = 0 /\ batchTicks = 0 /\ focus = 0
  /\ stageLog = <<>> /\ calls = <<>>

NextStages ==
  \/ TsTick
  \/ CallIntegrateVerlet
  \/ CallSatisfyConstraints
  \/ CallHandleGroundCollision
  \/ CallHandleWallCollision
  \/ \E skip \in BOOLEAN : StepPhysicsCall(skip)

SpecStages == InitStages /\ [][NextStages]_vars

(***************************************************************************)
(* Fitness (core/topology)                                                 *)
(***************************************************************************)
\* a calculateFitness without the death penalty
calculateFitnessNoPenalty(creature, targetZone, startX) ==
  LET travelled == creature.maxDistance - startX
  IN [total |-> travelled, distance |-> travelled, targetBonus |-> 0,
      efficiency |-> 0, stability |-> 0]

\* the target bonus of calculateFitness and calculateFitnessAdvanced
targetBonusOf(creature, targetZone, startX) ==
  LET targetCenterX == targetZone.x + targetZone.width \div 2
      distanceToTarget == Abs(creature.currentPos.x - targetCenterX)
      maxDistance == Abs(targetZone.x - startX)
  IN IF creature.reachedTarget THEN 1000 * Scale
     ELSE IF maxDistance > 0
          THEN Mul(Max(0, Scale - Div(distanceToTarget, maxDistance)), 500 * Scale)
          ELSE 0

calculateFitness(creature, targetZone, startX) ==
  LET travelled == creature.maxDistance - startX
      targetBonus == targetBonusOf(creature, targetZone, startX)
      deathPenalty == IF creature.isDead THEN -(500 * Scale) ELSE 0
  IN [total |-> travelled + targetBonus + deathPenalty, distance |-> travelled,
      targetBonus |-> targetBonus, efficiency |-> 0, stability |-> 0]

UPRIGHT_WEIGHT == 50 * Scale

calculateFitnessAdvanced(creature, targetZone, startX, groundLine) ==
  LET travelled == creature.maxDistance - startX
      targetBonus == targetBonusOf(creature, targetZone, startX)
      deathPenalty == IF creature.isDead THEN -(500 * Scale) ELSE 0
      h == IndexOfId(creature.particles, "head")
      headY == IF creature.hasMinHeadY THEN creature.minHeadY
               ELSE IF h # 0 THEN creature.particles[h].pos.y
               ELSE groundLine
      uprightBonus == Mul(UPRIGHT_WEIGHT, Max(0, Div(groundLine - headY, groundLine)))
  IN [total |-> travelled + uprightBonus + targetBonus + deathPenalty,
      distance |-> travelled, targetBonus |-> targetBonus, efficiency |-> 0,
      stability |-> uprightBonus]

(***************************************************************************)
(* The frame loop of the advanced-learning page, from the start of a       *)
(* generation to the end of its evaluation.  update() is one action per    *)
(* phase; the wall-clock delta, the speed multiplier and the number of     *)
(* passes the 8 ms budget allows are its inputs.                           *)
(***************************************************************************)
MaxFrames == 8

\* 10 s in the source; the model's generation lasts MaxTicks timesteps
GENERATION_DURATION == MaxTicks * FIXED_TIMESTEP

\* currentTime - lastTimeRef.current, in ms
FrameDeltas == {50, 100, 250, 1500}
SpeedMultipliers == {Scale, 2 * Scale}

\* (deltaTime / 1000) * speedMultiplierRef.current
simDeltaOf(deltaTime, speedMultiplier) == Mul((deltaTime * Scale) \div 1000, speedMultiplier)

\* an accumulator that forgets what the frame did not step
accumulatorCleared(accumulator, passes) == 0

\* timeAccumulatorRef after `passes` passes of a stepping loop
accumulatorAfter(accumulator, passes) == accumulator - passes * FIXED_TIMESTEP

\* the numbers of passes the running loop can make: none below one timestep;
\* one when the generation time is up (the phase switch breaks the loop);
\* otherwise it ends when the accumulator is below one timestep or, after
\* any pass, when the budget is spent
runningPasses(accumulator, generationTimeNow) ==
  IF accumulator < FIXED_TIMESTEP THEN {0}
  ELSE IF generationTimeNow >= GENERATION_DURATION THEN {1}
  ELSE 1..(accumulator \div FIXED_TIMESTEP)

\* the same for the evaluating loop, which also ends when totalSimTime has
\* reached GENERATION_DURATION
evaluatingPasses(accumulator, simTime) ==
  IF accumulator < FIXED_TIMESTEP \/ simTime >= GENERATION_DURATION THEN {0}
  ELSE 1..Min(accumulator \div FIXED_TIMESTEP,
              (GENERATION_DURATION - simTime + FIXED_TIMESTEP - 1) \div FIXED_TIMESTEP)

\* `passes` passes of a stepping loop over the population
RECURSIVE runningLoop(_, _, _)
runningLoop(list, passes, time) ==
  IF passes <= 0 THEN list
  ELSE runningLoop(runningTick(list, OrchestratorEnv, time), passes - 1,
                   time + FIXED_TIMESTEP)

\* an evaluation that does not wait for the simulated time
evaluationAlways(simTime) == TRUE

\* the test before the fitness calculation of the evaluating phase
evaluationDue(simTime) == simTime >= GENERATION_DURATION

\* c.fitness = calculateFitnessAdvanced(c, targetZone, c.startPos.x, groundY)
fitnessOfAll(list) ==
  [i \in 1..Len(list) |->
     calculateFitnessAdvanced(list[i], OrchestratorEnv.targetZone, list[i].startPos.x,
                              groundY)]

\* update() returns at once on a delta above 1000 ms
UpdateDropped(deltaTime) ==
  /\ rafScheduled /\ frames < MaxFrames
  /\ phase \in {"running", "evaluating"}
  /\ deltaTime > 1000
  /\ rafScheduled' = FALSE
  /\ frames' = frames + 1
  /\ frameLog' = [simDelta |-> 0, passes |-> 0, simTime |-> totalSimTime]
  /\ UNCHANGED <<phase, generation, creatures, reactions, hasWorkerRef, lastOutcome,
                 sPc, sParents, sNext, timeAccumulator, totalSimTime, generationTime,
                 lastStateUpdate, creatureFitness, workerVars, threadVars, physVars, libVars>>

\* what update() leaves in the refs after a running-phase frame
RunningFrame(simDelta, passes) ==
  /\ passes \in runningPasses(timeAccumulator + simDelta,
                              Min(generationTime + simDelta, GENERATION_DURATION))
  /\ timeAccumulator' = accumulatorAfter(timeAccumulator + simDelta, passes)
  /\ generationTime' = Min(generationTime + simDelta, GENERATION_DURATION)
  /\ totalSimTime' = totalSimTime + passes * FIXED_TIMESTEP
  /\ tsPop' = runningLoop(tsPop, passes, totalSimTime)
  /\ phase' = IF passes > 0 /\ generationTime' >= GENERATION_DURATION
              THEN "evaluating" ELSE "running"
  /\ IF totalSimTime - lastStateUpdate >= Pct(10)
     THEN creatureFitness' = fitnessOfAll(tsPop) /\ lastStateUpdate' = totalSimTime
     ELSE UNCHANGED <<creatureFitness, lastStateUpdate>>
  /\ frameLog' = [simDelta |-> simDelta, passes |-> passes, simTime |-> totalSimTime']

\* update() in the running phase
UpdateRunning(deltaTime, speedMultiplier) ==
  /\ rafScheduled /\ frames < MaxFrames
  /\ phase = "running"
  /\ deltaTime <= 1000
  /\ \E passes \in 0..(MaxTicks + 10) :
       RunningFrame(simDeltaOf(deltaTime, speedMultiplier), passes)
  /\ frames' = frames + 1
  /\ UNCHANGED <<generation, creatures, rafScheduled, reactions, hasWorkerRef, lastOutcome,
                 sPc, sParents, sNext, batchPop, batchPop2, wasmMemory, wasmMemory2,
                 tsTicks, batchTicks, focus, solo, solo0, stageLog, calls,
                 workerVars, threadVars, libVars>>

\* the end of the evaluating phase: every fitness is assigned and the phase
\* is replay with a winner, evolving without
Evaluate(list, accumulator, simTime) ==
  /\ creatureFitness' = fitnessOfAll(list)
  /\ IF \E i \in 1..Len(list) : list[i].reachedTarget
     THEN phase' = "replay" /\ totalSimTime' = 0 /\ timeAccumulator' = 0
     ELSE phase' = "evolving" /\ totalSimTime' = simTime /\ timeAccumulator' = accumulator

\* what update() leaves in the refs after an evaluating-phase frame
EvaluatingFrame(passes, list, accumulator, simTime) ==
  /\ tsPop' = list
  /\ frameLog' = [simDelta |-> 0, passes |-> passes, simTime |-> simTime]
  /\ IF evaluationDue(simTime)
     THEN Evaluate(list, accumulator, simTime)
     ELSE /\ totalSimTime' = simTime /\ timeAccumulator' = accumulator
          /\ UNCHANGED <<phase, creatureFitness>>

\* update() in the evaluating phase
UpdateEvaluating(deltaTime) ==
  /\ rafScheduled /\ frames < MaxFrames
  /\ phase = "evaluating"
  /\ deltaTime <= 1000
  /\ \E passes \in evaluatingPasses(timeAccumulator, totalSimTime) :
       EvaluatingFrame(passes, runningLoop(tsPop, passes, totalSimTime),
                       accumulatorAfter(timeAccumulator, passes),
                       totalSimTime + passes * FIXED_TIMESTEP)
  /\ frames' = frames + 1
  /\ UNCHANGED <<generation, creatures, rafScheduled, reactions, hasWorkerRef, lastOutcome,
                 sPc, sParents, sNext, generationTime, lastStateUpdate,
                 batchPop, batchPop2, wasmMemory, wasmMemory2,
                 tsTicks, batchTicks, focus, solo, solo0, stageLog, calls,
                 workerVars, threadVars, libVars>>

\* initializePopulation and the effect that requests the first frame
InitFrame ==
  /\ workerAlive = TRUE /\ pending = 0 /\ promises = <<>>
  /\ toWorker = <<>> /\ fromWorker = <<>>
  /\ wPc = "idle" /\ wInput = None /\ wElites = <<>> /\ wParents = <<>>
  /\ wNext = <<>> /\ wP1 = None /\ wP2 = None
  /\ phase = "running" /\ generation = 0 /\ creatures = <<>> /\ rafScheduled = TRUE
  /\ reactions = {} /\ hasWorkerRef = FALSE /\ lastOutcome = "none"
  /\ sPc = "idle" /\ sParents = <<>> /\ sNext = <<>>
  /\ LibIdle
  /\ tsPop \in Populations
  /\ batchPop = <<>> /\ batchPop2 = <<>>
  /\ wasmMemory = <<>> /\ wasmMemory2 = <<>>
  /\ tsTicks = 0 /\ batchTicks = 0 /\ focus = 0
  /\ solo = None /\ solo0 = None
  /\ stageLog = <<>> /\ calls = <<>>
  /\ timeAccumulator = 0 /\ totalSimTime = 0 /\ generationTime = 0
  /\ lastStateUpdate = 0 /\ creatureFitness = <<>> /\ frames = 0 /\ frameLog = None

NextFrame ==
  \/ \E deltaTime \in FrameDeltas : UpdateDropped(deltaTime)
  \/ \E deltaTime \in FrameDeltas : \E speedMultiplier \in SpeedMultipliers :
       UpdateRunning(deltaTime, speedMultiplier)
  \/ \E deltaTime \in FrameDeltas : UpdateEvaluating(deltaTime)

SpecFrame == InitFrame /\ [][NextFrame]_vars

\* C1: at most one request is pending at any time: a promise evolve()
\* returned that is not yet settled is the newest one and the one the wrapper
\* holds; every earlier promise has been settled (an evolve call that finds a
\* request pending rejects it).
C1_AtMostOnePending ==
  \A i \in 1..Len(promises) :
    promises[i].state = "pending" => (i = Len(promises) /\ pending = i)

\* a request was superseded: it is rejected and the newer one is pending
C1_Witness ==
  \E i \in 1..Len(promises) :
    /\ i < Len(promises)
    /\ promises[i].state = "rejected"
    /\ promises[i].value.error = SupersededMsg
    /\ promises[Len(promises)].state = "pending"

\* number of creatures of cs strictly fitter than creature i
StrictlyFitter(cs, i) ==
  Cardinality({j \in 1..Len(cs) : cs[j].fitness > cs[i].fitness})

\* C9: the population evolveGeneration returns begins with the genomes of the
\* min(elitismCount, n) fittest creatures, fittest first and unchanged (the
\* rest is bred); its length is exactly populationSize when
\* the input population is non-empty and elitismCount <= populationSize.
C9_ElitesThenOffspring ==
  \A p \in 1..Len(promises) :
    promises[p].state = "resolved" =>
      LET cs  == promises[p].input.creatures
          cfg == promises[p].input.config
          out == promises[p].value.genomes
          n   == Len(cs)
          k   == Min(cfg.elitismCount, n)
      IN /\ k <= Len(out)
         /\ \A j \in 1..k :
              \E i \in 1..n :
                /\ out[j] = cs[i].genome
                /\ StrictlyFitter(cs, i) <= j - 1
                /\ j < k => \E i2 \in 1..n : /\ out[j + 1] = cs[i2].genome
                                             /\ cs[i].fitness >= cs[i2].fitness
         /\ \A j1, j2 \in 1..k : j1 # j2 => out[j1].id # out[j2].id
         /\ (n > 0 /\ cfg.elitismCount <= cfg.populationSize)
              => Len(out) = cfg.populationSize

\* two elites taken from an unsorted population, then at least one offspring
C9_Witness ==
  \E p \in 1..Len(promises) :
    /\ promises[p].state = "resolved"
    /\ LET cs  == promises[p].input.creatures
           cfg == promises[p].input.config
           out == promises[p].value.genomes
       IN /\ Len(cs) = 3 /\ cfg.elitismCount = 2 /\ cfg.populationSize = 3
          /\ cs[1].fitness < cs[3].fitness
          /\ Len(out) = 3 /\ out[1] = cs[3].genome /\ Len(out[3].parentIds) = 2

\* creature i of cs is among the top parentsTopPercent of cs by fitness
\* (at least one creature)
InMatingPool(cs, cfg, i) ==
  StrictlyFitter(cs, i) < Max(1, Floor(Len(cs) * cfg.parentsTopPercent))

\* C10: every offspring of the next population has generation =
\* currentGeneration + 1 and parentIds naming the two parents chosen for it,
\* and both parents are creatures of the mating pool.
C10_OffspringLineage ==
  /\ (wPc = "loop" /\ wP1 # None) =>
       LET child == wNext[Len(wNext)]
       IN /\ child.parentIds = <<wP1.genome.id, wP2.genome.id>>
          /\ child.generation = wInput.config.currentGeneration + 1
          /\ \A par \in {wP1, wP2} :
               \E i \in 1..Len(wInput.creatures) :
                 /\ wInput.creatures[i] = par
                 /\ InMatingPool(wInput.creatures, wInput.config, i)
  /\ \A p \in 1..Len(promises) :
       promises[p].state = "resolved" =>
         LET cs  == promises[p].input.creatures
             cfg == promises[p].input.config
             out == promises[p].value.genomes
         IN \A j \in (Min(cfg.elitismCount, Len(cs)) + 1)..Len(out) :
              /\ out[j].generation = cfg.currentGeneration + 1
              /\ Len(out[j].parentIds) = 2
              /\ \A q \in 1..2 :
                   \E i \in 1..Len(cs) :
                     /\ cs[i].genome.id = out[j].parentIds[q]
                     /\ InMatingPool(cs, cfg, i)

\* an offspring of two different parents of a two-creature mating pool
C10_Witness ==
  \E p \in 1..Len(promises) :
    /\ promises[p].state = "resolved"
    /\ LET cs  == promises[p].input.creatures
           cfg == promises[p].input.config
           out == promises[p].value.genomes
       IN /\ Len(cs) = 3 /\ Len(out) > Min(cfg.elitismCount, Len(cs))
          /\ Max(1, Floor(Len(cs) * cfg.parentsTopPercent)) = 2
          /\ out[Len(out)].parentIds[1] # out[Len(out)].parentIds[2]
          /\ out[Len(out)].generation = cfg.currentGeneration + 1

\* C2: when the offloaded evolution call fails (its promise rejects or its
\* response carries an error), the orchestrator's handling of the failure runs
\* the synchronous pass: the next population is produced, the generation is
\* one more than the failed request's and the phase is running again.
C2_FailureRunsFallback ==
  lastOutcome = "failed" =>
    /\ phase = "running"
    /\ \E i \in 1..Len(promises) :
         /\ promises[i].state = "rejected"
         /\ generation = promises[i].input.config.currentGeneration + 1

\* the particles of a and b are at the same positions
SamePositions(a, b) ==
  \A j \in 1..Len(a.particles) : a.particles[j].pos = b.particles[j].pos

\* C3: after the same number of ticks, every particle position of every
\* creature stepped by stepPhysicsBatch equals the position the per-creature
\* pipeline gives it (same ground, walls, dt, force, air resistance,
\* iterations, muscle stiffness and oscillator times).
C3_BatchMatchesPerCreature ==
  tsTicks = batchTicks =>
    \A i \in 1..Len(tsPop) : SamePositions(batchPop[i], tsPop[i])

\* the bookkeeping fields of a and b agree
SameBookkeeping(a, b) ==
  /\ a.isDead = b.isDead
  /\ a.currentPos = b.currentPos
  /\ a.maxDistance = b.maxDistance
  /\ a.hasMinHeadY = b.hasMinHeadY /\ a.minHeadY = b.minHeadY
  /\ a.reachedTarget = b.reachedTarget

\* C4: after the same number of ticks the batch path and the non-batched
\* loop agree on every creature's isDead, currentPos, maxDistance, minHeadY
\* and reachedTarget.
C4_BookkeepingParity ==
  tsTicks = batchTicks =>
    \A i \in 1..Len(tsPop) : SameBookkeeping(batchPop[i], tsPop[i])

\* C5: two batch runs over populations that agree on creature `focus` (and on
\* the shared inputs and step counts) give creature `focus` the same
\* particles, isDead, currentPos, maxDistance, minHeadY and reachedTarget,
\* whatever the other creatures are.
C5_BatchIndependence ==
  focus > 0 =>
    /\ batchPop[focus].particles = batchPop2[focus].particles
    /\ SameBookkeeping(batchPop[focus], batchPop2[focus])

\* the head particle of creature c touches the ground line
HeadOnGround(c) ==
  LET h == IndexOfId(c.particles, "head")
  IN h > 0 /\ c.particles[h].pos.y >= groundY - c.particles[h].radius

\* one stepping call takes population pop to next as C6 says
DeathIsFinal(pop, next) ==
  /\ Len(next) = Len(pop)
  /\ \A i \in 1..Len(pop) :
       /\ pop[i].isDead => next[i] = pop[i]
       /\ (~pop[i].isDead /\ next[i].isDead) => HeadOnGround(next[i])
       /\ (~pop[i].isDead /\ ~next[i].isDead) => ~HeadOnGround(next[i])

\* C6: on either path a creature becomes isDead in the tick that ends with
\* its head at or below groundY - radius and not otherwise; a dead creature's
\* particles and bookkeeping fields are left unchanged by every later tick,
\* and stepping never changes the length of the population.
C6_DeadStaysFrozen ==
  [][DeathIsFinal(tsPop, tsPop') /\ DeathIsFinal(batchPop, batchPop')]_vars

\* C7: whatever sequence of integrateVerlet, satisfyConstraints,
\* handleGroundCollision and handleWallCollision calls (and of stepPhysics
\* calls, which are made of them) has been applied, every locked particle has
\* the pos and oldPos it had before the sequence.
C7_LockedNeverMoves ==
  \A i \in 1..Len(solo.particles) :
    solo0.particles[i].isLocked =>
      /\ solo.particles[i].isLocked
      /\ solo.particles[i].pos = solo0.particles[i].pos
      /\ solo.particles[i].oldPos = solo0.particles[i].oldPos

\* a pinned hip below the ground line, between two unlocked particles that
\* have moved, after Verlet integration, the solver and ground collision
C7_Witness ==
  /\ calls = <<"verlet", "solver", "ground">>
  /\ solo0.particles[2].isLocked
  /\ solo0.particles[2].pos.y > groundY - solo0.particles[2].radius
  /\ solo.particles[1].pos # solo0.particles[1].pos
  /\ solo.particles[3].pos # solo0.particles[3].pos

\* the order of the stages of a tick
FixedStageOrder ==
  <<"oscillator", "verlet", "solver", "ground", "wall", "death", "bookkeeping">>

\* C8: the latest tick of every stepping path took every creature that was
\* alive through the seven stages in the fixed order, none skipped.
C8_FixedStageOrder ==
  \A i \in 1..Len(stageLog) :
    stageLog[i].live => stageLog[i].stages = FixedStageOrder

(***************************************************************************)
(* Genetics library: selection, crossover, mutation and seeding called     *)
(* directly.  A call that throws leaves [threw |-> TRUE, value |-> the      *)
(* message]; a call that returns leaves [threw |-> FALSE, value |-> the     *)
(* result].  The Math.random() values a call consumes are part of the call. *)
(***************************************************************************)
Thrown(msg) == [threw |-> TRUE, value |-> msg]
Returned(v) == [threw |-> FALSE, value |-> v]

\* a selectElites that slices without sorting
selectFirst(cs, count) ==
  IF Len(cs) = 0 THEN <<>> ELSE Slice0(cs, Min(count, Len(cs)))

selectElites(cs, count) ==
  IF Len(cs) = 0 THEN <<>> ELSE Slice0(SortDesc(cs), Min(count, Len(cs)))

\* the tournament array: cs[Math.floor(Math.random() * cs.length)] per slot
Tournament(cs, draws) == [i \in 1..Len(draws) |-> cs[Floor(draws[i] * Len(cs)) + 1]]

\* tournamentSize = Len(draws) >= 1
tournamentSelection(cs, draws) ==
  IF Len(cs) = 0 THEN Thrown(EmptySelectionMsg)
  ELSE Returned(ReduceBest(Tournament(cs, draws)[1], Tail(Tournament(cs, draws))))

\* a length test that never fails
arityUnchecked(parent1, parent2) == FALSE

\* if (parent1.genes.length !== parent2.genes.length) throw, the first
\* statement of each crossover operator
crossoverArityError(parent1, parent2) == Len(parent1.genes) # Len(parent2.genes)

\* draws[i]: the Math.random() value of gene i
uniformCrossoverWithBias(parent1, parent2, probabilityFromParent1, freshId, draws) ==
  IF crossoverArityError(parent1, parent2) THEN Thrown(CrossoverArityMsg)
  ELSE Returned(
    [id |-> freshId,
     genes |-> [i \in 1..Len(parent1.genes) |->
                  IF i > Len(parent2.genes) THEN parent1.genes[i]
                  ELSE IF draws[i] < Max(0, Min(Scale, probabilityFromParent1))
                       THEN parent1.genes[i]
                       ELSE parent2.genes[i]],
     generation |-> Max(parent1.generation, parent2.generation) + 1,
     parentIds |-> <<parent1.id, parent2.id>>])

uniformCrossover(parent1, parent2, freshId, draws) ==
  uniformCrossoverWithBias(parent1, parent2, Pct(50), freshId, draws)

\* arithmeticCrossover with its length test
arithmeticCrossoverCall(parent1, parent2, freshId) ==
  IF crossoverArityError(parent1, parent2) THEN Thrown(CrossoverArityMsg)
  ELSE Returned(arithmeticCrossover(parent1, parent2, freshId))

\* sbxCrossover with its length test
sbxCrossoverCall(parent1, parent2, freshId, draws) ==
  IF crossoverArityError(parent1, parent2) THEN Thrown(CrossoverArityMsg)
  ELSE Returned(sbxCrossover(parent1, parent2, freshId, draws))

\* draws = <<rAmplitude, rFrequency, rPhase>> per muscle
createRandomGenome(topology, gen, freshId, draws) ==
  [id |-> freshId,
   genes |-> [i \in 1..Len(topology.muscles) |->
                [muscleId  |-> topology.muscles[i].id,
                 amplitude |-> Mul(draws[i][1], Scale) + Pct(50),
                 frequency |-> Mul(draws[i][2], Scale) + Pct(30),
                 phase     |-> Mul(draws[i][3], TwoPi)]],
   generation |-> gen]

\* Array.from({length: size}, () => createRandomGenome(topology, 0))
createInitialPopulation(topology, size, draws) ==
  [k \in 1..size |-> createRandomGenome(topology, 0, k, draws[k])]

(***************************************************************************)
(* SpecLib: one library call, from every call of the bounded input set     *)
(***************************************************************************)
MaxPool == 3
MaxTournament == 3
MaxSeed == 2

\* the genes of GenomeX in the other muscle order
GenomeY == Genome(6, <<Gene("m2", Pct(70), Pct(200), Pct(100)), Gene("m1", Pct(10), Pct(400), Pct(500))>>, 1)

LibGenomes == {GenomeA, GenomeB, GenomeP, GenomeX, GenomeY}
LibRand == {0, Pct(50), Pct(99)}
LibFitness == {3, 5, 7}
LibPools ==
  UNION { { [i \in 1..n |-> CreatureData(GAGenomes[((i - 1) % 4) + 1], f[i])] :
            f \in [1..n -> LibFitness] } : n \in 0..MaxPool }
\* the random values of one gene or muscle, field by field
Triples == {<<0, 0, 0>>, <<Pct(99), Pct(99), Pct(99)>>, <<Pct(50), 0, Pct(99)>>}
SbxTuples == {<<0, 0, 0, 0, 0, 0>>, <<Pct(99), Pct(99), Pct(99), Pct(99), Pct(99), Pct(99)>>,
              <<Pct(50), 0, Pct(99), Pct(99), 0, Pct(99)>>}
MutationDraws == {<<c>> \o t : c \in LibRand, t \in Triples}
LibTopologies == {[muscles |-> <<[id |-> "m1"]>>],
                  [muscles |-> <<[id |-> "m1"], [id |-> "m2"]>>]}

SelectElitesCalls ==
  {[op |-> "selectElites", creatures |-> cs, count |-> n] :
     cs \in LibPools, n \in 0..(MaxPool + 1)}
TournamentCalls ==
  {[op |-> "tournamentSelection", creatures |-> cs, draws |-> d] :
     cs \in LibPools, d \in UNION {[1..t -> LibRand] : t \in 1..MaxTournament}}
UniformCalls ==
  UNION {{[op |-> "uniformCrossover", parent1 |-> p1, parent2 |-> p2, draws |-> d] :
            d \in [1..Len(p1.genes) -> LibRand]} : p1 \in LibGenomes, p2 \in LibGenomes}
BiasCalls ==
  UNION {{[op |-> "uniformCrossoverWithBias", parent1 |-> p1, parent2 |-> p2,
           probabilityFromParent1 |-> Pct(60), draws |-> d] :
            d \in [1..Len(p1.genes) -> LibRand]} : p1 \in LibGenomes, p2 \in LibGenomes}
ArithmeticCalls ==
  {[op |-> "arithmeticCrossover", parent1 |-> p1, parent2 |-> p2] :
     p1 \in LibGenomes, p2 \in LibGenomes}
SbxCalls ==
  UNION {{[op |-> "sbxCrossover", parent1 |-> p1, parent2 |-> p2, sbxDraws |-> d] :
            d \in [1..Len(p1.genes) -> SbxTuples]} : p1 \in LibGenomes, p2 \in LibGenomes}
MutateCalls ==
  UNION {{[op |-> "mutateGenome", genome |-> g, mutationRate |-> rate,
           mutationStrength |-> strength, geneDraws |-> d] :
            rate \in {0, Pct(12), Scale}, strength \in {0, Pct(42), 3 * Scale},
            d \in [1..Len(g.genes) -> MutationDraws]} : g \in LibGenomes}
SeedCalls ==
  UNION {{[op |-> "createInitialPopulation", topology |-> t, size |-> n, seedDraws |-> d] :
            d \in [1..n -> [1..Len(t.muscles) -> Triples]]} :
         t \in LibTopologies, n \in 0..MaxSeed}
\* creatures at the end of a run: behind, at or ahead of the start, away from
\* or at the centre of the target zone, dead or alive, with and without a
\* recorded minHeadY
ScoredCreatures ==
  { [Standing EXCEPT !.maxDistance = d * Scale, !.currentPos = Vec(x * Scale, 32 * Scale),
                     !.reachedTarget = r, !.isDead = k, !.hasMinHeadY = h,
                     !.minHeadY = IF h THEN 20 * Scale ELSE 0] :
      d \in {7, 10, 22}, x \in {10, 19, 20, 40}, r \in BOOLEAN, k \in BOOLEAN,
      h \in BOOLEAN }
FitnessCalls ==
  { [op |-> o, subject |-> c, zone |-> OrchestratorEnv.targetZone, startX |-> x * Scale,
     groundLine |-> groundY] :
      o \in {"calculateFitness", "calculateFitnessAdvanced"}, c \in ScoredCreatures,
      x \in {10, 18} }
\* a creature without a particle called head, before and after a first
\* bookkeeping
Headless ==
  [Standing EXCEPT !.particles = [i \in DOMAIN @ |->
                                    IF @[i].id = "head" THEN [@[i] EXCEPT !.id = "skull"]
                                    ELSE @[i]]]
HeadlessSeen == [Headless EXCEPT !.hasMinHeadY = TRUE, !.minHeadY = 28 * Scale]
BatchCalls ==
  { [op |-> "stepPhysicsBatch", module |-> md, population |-> p, numSteps |-> n] :
      md \in {"none", "noExports", "loaded"},
      p \in Populations \cup {<<>>, <<Headless>>, <<HeadlessSeen>>, <<HeadlessSeen, Standing>>},
      n \in -1..2 }
LibCalls ==
  BatchCalls \cup SelectElitesCalls \cup TournamentCalls \cup UniformCalls \cup BiasCalls
    \cup ArithmeticCalls \cup SbxCalls \cup MutateCalls \cup SeedCalls \cup FitnessCalls

\* the call has been made and nothing else moves
LibReturns(op, result) ==
  /\ libCall # None /\ libCall.op = op /\ libResult = None
  /\ libResult' = result
  /\ UNCHANGED <<libCall, workerVars, threadVars, orchVars, physVars, frameVars>>

\* an id neither parent carries
LibFreshId(call) == 1 + Max(call.parent1.id, call.parent2.id)

CallSelectElites ==
  LibReturns("selectElites", Returned(selectElites(libCall.creatures, libCall.count)))
CallTournamentSelection ==
  LibReturns("tournamentSelection", tournamentSelection(libCall.creatures, libCall.draws))
CallUniformCrossover ==
  LibReturns("uniformCrossover",
             uniformCrossover(libCall.parent1, libCall.parent2, LibFreshId(libCall), libCall.draws))
CallUniformCrossoverWithBias ==
  LibReturns("uniformCrossoverWithBias",
             uniformCrossoverWithBias(libCall.parent1, libCall.parent2,
                                      libCall.probabilityFromParent1, LibFreshId(libCall),
                                      libCall.draws))
CallArithmeticCrossover ==
  LibReturns("arithmeticCrossover",
             arithmeticCrossoverCall(libCall.parent1, libCall.parent2, LibFreshId(libCall)))
CallSbxCrossover ==
  LibReturns("sbxCrossover",
             sbxCrossoverCall(libCall.parent1, libCall.parent2, LibFreshId(libCall), libCall.sbxDraws))
CallMutateGenome ==
  LibReturns("mutateGenome",
             Returned(mutateGenome(libCall.genome, libCall.mutationRate,
                                   libCall.mutationStrength, libCall.geneDraws)))
CallCreateInitialPopulation ==
  LibReturns("createInitialPopulation",
             Returned(createInitialPopulation(libCall.topology, libCall.size, libCall.seedDraws)))

CallCalculateFitness ==
  LibReturns("calculateFitness",
             Returned(calculateFitness(libCall.subject, libCall.zone, libCall.startX)))
CallCalculateFitnessAdvanced ==
  LibReturns("calculateFitnessAdvanced",
             Returned(calculateFitnessAdvanced(libCall.subject, libCall.zone, libCall.startX,
                                               libCall.groundLine)))

CallStepPhysicsBatch ==
  LibReturns("stepPhysicsBatch",
             Returned(stepPhysicsBatchOn(libCall.module, <<>>, libCall.population,
                                         OrchestratorEnv, libCall.numSteps, 0)))

InitLib ==
  /\ workerAlive = TRUE /\ pending = 0 /\ promises = <<>>
  /\ toWorker = <<>> /\ fromWorker = <<>>
  /\ wPc = "idle" /\ wInput = None /\ wElites = <<>> /\ wParents = <<>>
  /\ wNext = <<>> /\ wP1 = None /\ wP2 = None
  /\ OrchIdle
  /\ PhysIdle
  /\ FrameIdle
  /\ libCall \in LibCalls /\ libResult = None

NextLib ==
  \/ CallSelectElites
  \/ CallTournamentSelection
  \/ CallUniformCrossover
  \/ CallUniformCrossoverWithBias
  \/ CallArithmeticCrossover
  \/ CallSbxCrossover
  \/ CallMutateGenome
  \/ CallCreateInitialPopulation
  \/ CallCalculateFitness
  \/ CallCalculateFitnessAdvanced
  \/ CallStepPhysicsBatch

SpecLib == InitLib /\ [][NextLib]_vars

(***************************************************************************)
(* Properties of the library calls                                         *)
(***************************************************************************)
\* the call `op` has been made and has returned or thrown
LibDid(op) == libCall # None /\ libCall.op = op /\ libResult # None

\* the elements of a sequence with their multiplicities
BagOf(s) == [x \in {s[i] : i \in DOMAIN s} |-> Cardinality({i \in DOMAIN s : s[i] = x})]

\* C11: selectElites(creatures, n) returns exactly min(n, number of creatures)
\* of the creatures, in descending order of fitness.total, and none of the
\* creatures it leaves out is fitter than one it returns.
C11_SelectElitesTopN ==
  LibDid("selectElites") =>
    LET cs == libCall.creatures
        out == libResult.value
        rest == BagOf(cs) (-) BagOf(out)
    IN /\ ~libResult.threw
       /\ Len(out) = Min(libCall.count, Len(cs))
       /\ BagOf(out) \sqsubseteq BagOf(cs)
       /\ \A i \in 1..(Len(out) - 1) : out[i].fitness >= out[i + 1].fitness
       /\ \A i \in DOMAIN out : \A c \in DOMAIN rest : out[i].fitness >= c.fitness

\* selectElites took two of three creatures that were not in fitness order
C11_Witness ==
  /\ LibDid("selectElites")
  /\ Len(libCall.creatures) = 3 /\ libCall.count = 2
  /\ libCall.creatures[1].fitness < libCall.creatures[2].fitness
  /\ libCall.creatures[2].fitness < libCall.creatures[3].fitness
  /\ Len(libResult.value) = 2

\* C12: on a non-empty pool tournamentSelection (and the worker's
\* workerTournamentSelection) returns one of the candidates it sampled, and
\* no sampled candidate has a larger fitness.total than the one returned.
C12_TournamentNeverWorst ==
  (LibDid("tournamentSelection") /\ Len(libCall.creatures) > 0) =>
    LET sampled == Tournament(libCall.creatures, libCall.draws)
        inWorker == workerTournamentSelection(libCall.creatures, libCall.draws)
    IN /\ ~libResult.threw
       /\ \E i \in DOMAIN sampled : libResult.value = sampled[i]
       /\ \A i \in DOMAIN sampled : libResult.value.fitness >= sampled[i].fitness
       /\ \E i \in DOMAIN sampled : inWorker = sampled[i]
       /\ \A i \in DOMAIN sampled : inWorker.fitness >= sampled[i].fitness

\* a tournament of three over a pool of three whose first sample is the
\* least fit and whose samples are not all the same creature
C12_Witness ==
  /\ LibDid("tournamentSelection")
  /\ Len(libCall.creatures) = 3 /\ Len(libCall.draws) = 3
  /\ LET sampled == Tournament(libCall.creatures, libCall.draws)
     IN /\ sampled[1].fitness < sampled[2].fitness
        /\ sampled[2].fitness < sampled[3].fitness
        /\ libResult.value = sampled[3]

\* C13: selection on an empty pool fails that call only.  tournamentSelection
\* throws on an empty array; when the worker's selection meets an empty
\* mating pool the handler posts a response with the error and no genomes,
\* returns, and leaves the worker and its queued requests as they were; the
\* wrapper rejects the pending promise with that error and keeps the worker.
\* (Steps of terminate(), which discards the thread, are not steps of the call.)
C13_EmptySelectionFailsOneCall ==
  [][/\ (wPc = "p1" /\ Len(wParents) = 0 /\ wPc' # "p1" /\ workerAlive') =>
          /\ \A d \in [1..TournamentSize -> Rand] :
               /\ tournamentSelection(wParents, d).threw
               /\ tournamentSelection(wParents, d).value = EmptySelectionMsg
          /\ fromWorker' = Append(fromWorker, [genomes |-> <<>>, error |-> EmptySelectionMsg])
          /\ wPc' = "idle"
          /\ workerAlive' = workerAlive /\ toWorker' = toWorker
     /\ (/\ fromWorker # <<>> /\ fromWorker' = Tail(fromWorker) /\ pending # 0
         /\ Head(fromWorker).error = EmptySelectionMsg /\ workerAlive') =>
          /\ promises'[pending].state = "rejected"
          /\ promises'[pending].value.error = EmptySelectionMsg
          /\ promises'[pending].value.genomes = <<>>
          /\ pending' = 0
          /\ workerAlive' = workerAlive /\ wPc' = wPc /\ toWorker' = toWorker
    ]_vars

\* a request over an empty population was rejected with the selection error
\* and a later request to the same worker was answered with its genomes
C13_Witness ==
  /\ Len(promises) = 2
  /\ promises[1].input.creatures = <<>>
  /\ promises[1].state = "rejected" /\ promises[1].value.error = EmptySelectionMsg
  /\ promises[2].state = "resolved"
  /\ Len(promises[2].value.genomes) = promises[2].input.config.populationSize
  /\ workerAlive

CrossoverOps == {"uniformCrossover", "uniformCrossoverWithBias", "arithmeticCrossover",
                 "sbxCrossover"}
\* one of the crossover operators has been called
CrossoverDone == libCall # None /\ libCall.op \in CrossoverOps /\ libResult # None

\* C14: uniformCrossover, uniformCrossoverWithBias, arithmeticCrossover and
\* sbxCrossover throw, and return no child, whenever the parents' gene arrays
\* differ in length.
C14_CrossoverArityError ==
  (CrossoverDone /\ Len(libCall.parent1.genes) # Len(libCall.parent2.genes)) =>
    libResult.threw /\ libResult.value = CrossoverArityMsg

\* sbxCrossover was called with a two-gene and a one-gene parent, and threw
C14_Witness ==
  /\ CrossoverDone /\ libCall.op = "sbxCrossover"
  /\ Len(libCall.parent1.genes) = 2 /\ Len(libCall.parent2.genes) = 1
  /\ libResult.threw

\* C15: every crossover operator throws when some index i has
\* parent1.genes[i].muscleId different from parent2.genes[i].muscleId, even
\* if both gene lists have the same length.
C15_CrossoverMuscleOrderError ==
  (/\ CrossoverDone
   /\ Len(libCall.parent1.genes) = Len(libCall.parent2.genes)
   /\ \E i \in DOMAIN libCall.parent1.genes :
        libCall.parent1.genes[i].muscleId # libCall.parent2.genes[i].muscleId) =>
    libResult.threw

\* C16: mutateGenome with mutationRate = 0 returns the genes of its input,
\* whatever Math.random() returns and whatever the mutationStrength.
C16_ZeroRateIsIdentity ==
  (LibDid("mutateGenome") /\ libCall.mutationRate = 0) =>
    /\ ~libResult.threw
    /\ libResult.value.genes = libCall.genome.genes

InBounds(gene) ==
  /\ gene.amplitude >= Pct(5) /\ gene.amplitude <= Pct(80)
  /\ gene.frequency >= Pct(10) /\ gene.frequency <= Pct(500)
  /\ gene.phase >= 0 /\ gene.phase <= TwoPi

\* C17: mutateGenome with mutationRate = 1 returns a genome whose every gene
\* has amplitude in [0.05, 0.8], frequency in [0.1, 5.0] and phase in
\* [0, 2 pi], for every input genome and every mutationStrength.
C17_FullRateStaysInBounds ==
  (LibDid("mutateGenome") /\ libCall.mutationRate = Scale) =>
    /\ ~libResult.threw
    /\ Len(libResult.value.genes) = Len(libCall.genome.genes)
    /\ \A i \in DOMAIN libResult.value.genes :
         /\ InBounds(libResult.value.genes[i])
         /\ libResult.value.genes[i].muscleId = libCall.genome.genes[i].muscleId

\* a two-gene genome was mutated at rate 1 with a strength of 3: a draw of 0
\* sent the first amplitude to its lower bound, a draw of 0.99 sent the
\* second frequency to its upper bound
C17_Witness ==
  /\ LibDid("mutateGenome") /\ libCall.mutationRate = Scale
  /\ libCall.mutationStrength = 3 * Scale
  /\ Len(libCall.genome.genes) = 2
  /\ libCall.geneDraws[1][2] = 0 /\ libCall.geneDraws[2][3] = Pct(99)
  /\ libCall.genome.genes[1].amplitude > Pct(5)
  /\ libCall.genome.genes[2].frequency < Pct(500)
  /\ libResult.value.genes[1].amplitude = Pct(5)
  /\ libResult.value.genes[2].frequency = Pct(500)

\* C18: createInitialPopulation(topology, N) returns N genomes of generation
\* 0, each with one gene per topology muscle in topology order, every gene
\* field within the clamp bounds of mutation.
C18_SeedWithinBounds ==
  LibDid("createInitialPopulation") =>
    /\ ~libResult.threw
    /\ Len(libResult.value) = libCall.size
    /\ \A k \in DOMAIN libResult.value :
         LET g == libResult.value[k]
         IN /\ g.generation = 0
            /\ Len(g.genes) = Len(libCall.topology.muscles)
            /\ \A i \in DOMAIN g.genes :
                 /\ g.genes[i].muscleId = libCall.topology.muscles[i].id
                 /\ InBounds(g.genes[i])

(***************************************************************************)
(* Properties of the ground                                                *)
(***************************************************************************)
\* `after` is `before` with every unlocked particle beyond the ground line
\* put exactly on it and every particle clear of the line untouched
GroundedBy(before, after, ground) ==
  \A i \in DOMAIN before :
    /\ (~before[i].isLocked /\ before[i].pos.y > ground.y - before[i].radius) =>
         /\ after[i].pos.y = ground.y - before[i].radius
         /\ after[i].pos.x = before[i].pos.x
    /\ before[i].pos.y <= ground.y - before[i].radius =>
         /\ after[i].pos = before[i].pos
         /\ after[i].oldPos = before[i].oldPos

SamePos(ps, qs) == \A i \in DOMAIN ps : ps[i].pos = qs[i].pos

\* the kernel's ground_collision run on these particles, stored at offset 0
KernelGround(ps, ground) ==
  LoadParticles(
    ground_collision(
      StoreRecords(<<>>, 0, PARTICLE_STRIDE, [i \in 1..Len(ps) |-> ParticleCells(ps[i])]),
      0, Len(ps), 0, ground),
    0, Len(ps))

\* C19: one call of handleGroundCollision (and of the kernel's
\* ground_collision) puts every unlocked particle with pos.y > groundY -
\* radius at pos.y = groundY - radius exactly and leaves pos and oldPos of a
\* particle with pos.y <= groundY - radius untouched; a second call leaves
\* every pos as the first call left it.
C19_GroundCollisionIdempotent ==
  [][calls' = Append(calls, "ground") =>
       LET ground == OrchestratorEnv.ground
           viaKernel == KernelGround(solo.particles, ground)
       IN /\ GroundedBy(solo.particles, solo'.particles, ground)
          /\ SamePos(handleGroundCollision(solo'.particles, ground), solo'.particles)
          /\ GroundedBy(solo.particles, viaKernel, ground)
          /\ SamePos(KernelGround(viaKernel, ground), viaKernel)
          /\ SamePos(viaKernel, solo'.particles)
    ]_vars

\* after two Verlet steps the ground call found an unlocked particle beyond
\* the line and left it on the line, moving upwards, while another particle
\* stayed clear of the line
C19_Witness ==
  /\ calls = <<"verlet", "verlet", "ground">>
  /\ \E i \in DOMAIN solo.particles :
       /\ ~solo.particles[i].isLocked
       /\ solo.particles[i].pos.y = groundY - solo.particles[i].radius
       /\ solo.particles[i].oldPos.y > solo.particles[i].pos.y
  /\ \E j \in DOMAIN solo.particles :
       solo.particles[j].pos.y < groundY - solo.particles[j].radius

NoneBelowGround(creature) ==
  \A i \in DOMAIN creature.particles :
    ~creature.particles[i].isLocked =>
      creature.particles[i].pos.y <= groundY - creature.particles[i].radius

\* C20: at the end of every complete tick, of stepPhysics and of the
\* orchestrator's loop, every unlocked particle has pos.y <= groundY - radius.
C20_NeverBelowGround ==
  /\ (calls # <<>> /\ calls[Len(calls)] = "stepPhysics") => NoneBelowGround(solo)
  /\ tsTicks > 0 => \A c \in DOMAIN tsPop : NoneBelowGround(tsPop[c])

\* the second stepPhysics call ended with an unlocked particle on the ground
\* line, moving upwards: the tick's ground stage caught it beyond the line
C20_Witness ==
  /\ calls = <<"stepPhysics", "stepPhysics">>
  /\ \E i \in DOMAIN solo.particles :
       /\ ~solo.particles[i].isLocked
       /\ solo.particles[i].pos.y = groundY - solo.particles[i].radius
       /\ solo.particles[i].oldPos.y > solo.particles[i].pos.y

(***************************************************************************)
(* Properties of the constraint solver                                     *)
(***************************************************************************)
\* the two endpoints of the constraint are particles at one position
Coincident(ps, con) ==
  /\ IndexOfId(ps, con.p1Id) # 0 /\ IndexOfId(ps, con.p2Id) # 0
  /\ ps[IndexOfId(ps, con.p1Id)].pos = ps[IndexOfId(ps, con.p2Id)].pos

\* the creature alone in a batch memory, as syncToWasm writes it
KernelMemoryOf(creature) ==
  syncToWasm(<<>>, <<creature>>, <<>>, OrchestratorEnv.targetZone,
             computeLayout(1, Len(creature.particles), Len(creature.constraints),
                           Len(creature.muscles), 0),
             0, MUSCLE_STIFFNESS)

\* the kernel's satisfy_constraints run on that memory
KernelSolve(creature, iterations) ==
  LoadParticles(
    satisfy_constraints(KernelMemoryOf(creature), 0,
                        Len(creature.particles) * PARTICLE_STRIDE,
                        Len(creature.constraints) + Len(creature.muscles), iterations),
    0, Len(creature.particles))

\* C21: a constraint whose two endpoints are at the same position is skipped
\* by the solver, in satisfyConstraints and in the kernel's
\* satisfy_constraints alike: handling that constraint leaves every particle
\* as it was, and a solver call on a creature all of whose constraints are
\* of that kind leaves every position as it was.  (No division by zero: the
\* evaluation of the solver would stop on one.)
C21_ZeroLengthConstraintSkipped ==
  [][calls' = Append(calls, "solver") =>
       LET cons == solo.constraints \o solo.muscles
           mem == KernelMemoryOf(solo)
           constraintsOff == Len(solo.particles) * PARTICLE_STRIDE
       IN /\ \A k \in DOMAIN cons :
               Coincident(solo.particles, cons[k]) =>
                 /\ satisfyOne(solo.particles, cons[k]) = solo.particles
                 /\ satisfy_skips(
                      LoadEndpoints(mem, 0, constraintsOff + (k - 1) * CONSTRAINT_STRIDE),
                      Load(mem, constraintsOff + (k - 1) * CONSTRAINT_STRIDE + 32))
          /\ (\A k \in DOMAIN cons : Coincident(solo.particles, cons[k])) =>
               /\ SamePos(solo'.particles, solo.particles)
               /\ \A n \in {1, 3} : SamePos(KernelSolve(solo, n), solo.particles)
    ]_vars

\* the solver ran on a creature whose bone and muscle, both of a rest length
\* above zero, join particles at one position, and the positions are those
\* the creature started with
C21_Witness ==
  /\ calls = <<"solver">>
  /\ \A k \in DOMAIN solo.constraints : Coincident(solo.particles, solo.constraints[k])
  /\ \A k \in DOMAIN solo.muscles :
       /\ Coincident(solo.particles, solo.muscles[k])
       /\ solo.muscles[k].currentLength > Pct(1)
  /\ \A k \in DOMAIN solo.constraints : solo.constraints[k].restLength > Pct(1)
  /\ SamePos(solo.particles, solo0.particles)

(***************************************************************************)
(* Properties of the frame loop                                            *)
(***************************************************************************)
\* update() ran in the running phase and went past its delta test
RunningFrameStep ==
  frames' = frames + 1 /\ phase = "running" /\ frameLog'.simDelta > 0

C27_FrameLoopKeepsRunning ==
  (frames > 0 /\ phase \in {"running", "evaluating", "evolving", "replay"}) => rafScheduled

\* C29: in the evaluating phase the fitness of the generation is computed,
\* and the phase leaves "evaluating" for "evolving" or "replay", only once
\* simulated time has reached GENERATION_DURATION: a frame whose stepping
\* loop ends below the duration leaves the phase and every fitness as they
\* were, and the phase is "evolving" or "replay" only after a frame whose
\* loop ended at or above it.
C29_EvaluationWaitsForSimTime ==
  /\ [](phase \in {"evolving", "replay"} => frameLog.simTime >= GENERATION_DURATION)
  /\ [][(frames' = frames + 1 /\ phase = "evaluating") =>
          /\ frameLog'.simTime < GENERATION_DURATION =>
               phase' = "evaluating" /\ creatureFitness' = creatureFitness
          /\ (phase' # "evaluating" \/ creatureFitness' # creatureFitness) =>
               /\ frameLog'.simTime >= GENERATION_DURATION
               /\ creatureFitness' = fitnessOfAll(tsPop')
     ]_vars

\* an evaluating-phase frame made a pass, spent its budget below the
\* duration with a timestep still in the accumulator, and the phase is still
\* "evaluating"
C29_Witness ==
  /\ phase = "evaluating" /\ rafScheduled
  /\ frameLog.simDelta = 0 /\ frameLog.passes >= 1
  /\ frameLog.simTime < GENERATION_DURATION
  /\ timeAccumulator >= FIXED_TIMESTEP

(***************************************************************************)
(* Properties of the stepping loops                                        *)
(***************************************************************************)
\* the batch memory after syncToWasm and `steps` passes of the loop of
\* stepPhysicsBatch
BatchMemoryAfter(mem, population, env, steps, startTime) ==
  LET layout == computeLayout(Len(population), Len(population[1].particles),
                              Len(population[1].constraints), Len(population[1].muscles),
                              Len(env.walls))
  IN [layout |-> layout,
      mem |-> batchLoop(syncToWasm(mem, population, env.walls, env.targetZone, layout,
                                   IndexOfId(population[1].particles, "head") - 1,
                                   env.muscleStiffness),
                        KernelArgs(layout, Len(population), Len(env.walls), env),
                        steps, startTime)]

\* the passes, of the numSteps passes of one stepPhysicsBatch call, in which
\* step_all_creatures stepped creature c (counted from 0)
KernelPassesOf(mem, population, env, numSteps, startTime, c) ==
  { s \in 0..(numSteps - 1) :
      LET before == BatchMemoryAfter(mem, population, env, s, startTime)
      IN Load(before.mem, before.layout.metadataOffset + c * KERNEL_METADATA_STRIDE) = 0 }

\* C23: a tick is never abandoned part-way: when a stepping loop stops after
\* k passes, every creature that was alive throughout has been taken through
\* k whole ticks.  In the orchestrator's loop a creature alive after a pass
\* is the result of all stages of the tick on what it was before; in
\* stepPhysicsBatch a creature alive before and after a call of numSteps
\* passes was stepped by the kernel in each of them.
C23_TickCompletesForAllLive ==
  [][/\ tsTicks' = tsTicks + 1 =>
          \A i \in DOMAIN tsPop :
            ~tsPop'[i].isDead =>
              tsPop'[i] = RunStages(OrchestratorStages, tsPop[i], OrchestratorEnv,
                                    tsTicks * FIXED_TIMESTEP, TRUE)
     /\ batchTicks' > batchTicks =>
          \A i \in DOMAIN batchPop :
            (~batchPop[i].isDead /\ ~batchPop'[i].isDead) =>
              KernelPassesOf(wasmMemory, batchPop, OrchestratorEnv, batchTicks' - batchTicks,
                             batchTicks * FIXED_TIMESTEP, i - 1)
                = 0..(batchTicks' - batchTicks - 1)
    ]_vars

\* one stepping call takes population pop to next with monotone bookkeeping
MonotoneBookkeeping(pop, next) ==
  \A i \in DOMAIN pop :
    /\ next[i].maxDistance >= pop[i].maxDistance
    /\ (~next[i].isDead /\ next[i] # pop[i]) =>
         next[i].maxDistance >= calculateCenterOfMass(next[i].particles).x
    /\ pop[i].reachedTarget => next[i].reachedTarget
    /\ (pop[i].hasMinHeadY /\ next[i].hasMinHeadY) => next[i].minHeadY <= pop[i].minHeadY

FitnessParts(c, r, startX, extra) ==
  /\ r.distance = c.maxDistance - startX
  /\ c.reachedTarget => r.targetBonus = 1000 * Scale
  /\ ~c.reachedTarget =>
       /\ r.targetBonus >= 0 /\ r.targetBonus <= 500 * Scale
       /\ r.targetBonus < 1000 * Scale
  /\ r.total - r.distance - r.targetBonus - extra = (IF c.isDead THEN -(500 * Scale) ELSE 0)

\* C25: calculateFitness returns total = (maxDistance - startX) + targetBonus
\* + deathPenalty, where targetBonus is 1000 if reachedTarget and otherwise a
\* proximity bonus in [0, 500], and deathPenalty is -500 exactly when isDead
\* and 0 otherwise; calculateFitnessAdvanced has the same three parts and adds
\* the upright bonus it reports as stability.
C25_FitnessFormula ==
  /\ LibDid("calculateFitness") =>
       FitnessParts(libCall.subject, libResult.value, libCall.startX, 0)
  /\ LibDid("calculateFitnessAdvanced") =>
       /\ FitnessParts(libCall.subject, libResult.value, libCall.startX,
                       libResult.value.stability)
       /\ libResult.value.stability >= 0

\* calculateFitness scored a dead creature that did not reach the target,
\* ended ahead of its start and near the zone: a bonus strictly between 0
\* and 500 and the penalty are both in the total
C25_Witness ==
  /\ LibDid("calculateFitness")
  /\ libCall.subject.isDead /\ ~libCall.subject.reachedTarget
  /\ libResult.value.distance > 0
  /\ libResult.value.targetBonus > 0 /\ libResult.value.targetBonus < 500 * Scale
  /\ libResult.value.total =
       libResult.value.distance + libResult.value.targetBonus - 500 * Scale

(***************************************************************************)
(* Properties of the batch layout                                          *)
(***************************************************************************)
\* the layout stepPhysicsBatch computes for this population
LayoutOf(population) ==
  computeLayout(Len(population), Len(population[1].particles),
                Len(population[1].constraints), Len(population[1].muscles),
                Len(OrchestratorEnv.walls))

\* C26: the batch layout is shared by marshalling and kernel: for every
\* creature c of the population the kernel's particle block and metadata
\* record start at the byte offsets syncToWasm and syncFromWasm use, the
\* kernel's metadata cells of creature c (up to +120) lie inside creature c's
\* record, and after a batch call every cell that was written lies below
\* the layout's totalBytes.
C26_SharedLayout ==
  batchTicks > 0 =>
    LET layout == LayoutOf(batchPop)
        a == KernelArgs(layout, Len(batchPop), Len(OrchestratorEnv.walls), OrchestratorEnv)
    IN /\ \A c \in 0..(Len(batchPop) - 1) :
            /\ a.creaturesOffset + c * (a.numParticles * 72 + a.numConstraints * 80)
                 = layout.creaturesOffset + c * layout.creatureStride
            /\ a.metadataOffset + c * KERNEL_METADATA_STRIDE
                 = layout.metadataOffset + c * METADATA_STRIDE
            /\ a.metadataOffset + c * KERNEL_METADATA_STRIDE + 120
                 < layout.metadataOffset + (c + 1) * METADATA_STRIDE
       /\ \A cell \in DOMAIN wasmMemory : cell * 8 < layout.totalBytes

(***************************************************************************)
(* Properties of the worker's replies                                      *)
(***************************************************************************)
\* out is an output evolveGeneration can post for this input: there are
\* parents to select from, the genomes are populationSize many, and every
\* genome after the elites is stamped with the generation after the input's
CanOutput(input, out) ==
  /\ input.creatures # <<>>
  /\ out.error = ""
  /\ Len(out.genomes) = input.config.populationSize
  /\ \A k \in DOMAIN out.genomes :
       k > input.config.elitismCount =>
         out.genomes[k].generation = input.config.currentGeneration + 1

\* C28: a promise returned by evolve(input) is resolved only with the output
\* the worker computed from that same input: a resolved promise holds an
\* output the worker can compute from the promise's input, and a promise
\* rejected with the worker's empty-selection error belongs to an input that
\* has no creatures to select from.  In particular the reply to a superseded
\* request is never delivered as the result of the request that superseded it.
C28_ReplyMatchesRequest ==
  \A i \in DOMAIN promises :
    /\ promises[i].state = "resolved" => CanOutput(promises[i].input, promises[i].value)
    /\ (promises[i].state = "rejected" /\ promises[i].value.error = EmptySelectionMsg) =>
         promises[i].input.creatures = <<>>

(***************************************************************************)
(* Properties of the batch call's result                                   *)
(***************************************************************************)
\* syncToWasm throws: there is no head particle and a creature has no
\* minHeadY to fall back on
SetupThrows(population) ==
  /\ population # <<>>
  /\ IndexOfId(population[1].particles, "head") = 0
  /\ \E i \in DOMAIN population : ~population[i].hasMinHeadY

\* C30: stepPhysicsBatch returns true only after all numSteps passes were
\* run over the whole population and the results were copied back; when it
\* returns false (no module, missing exports, empty population, numSteps <=
\* 0, or an exception) every creature is as it was before the call.
C30_FailedBatchLeavesCreatures ==
  LibDid("stepPhysicsBatch") =>
    LET r == libResult.value
        population == libCall.population
        fails == \/ libCall.module # "loaded"
                 \/ population = <<>> \/ libCall.numSteps <= 0
                 \/ SetupThrows(population)
    IN /\ r.ok = ~fails
       /\ ~r.ok => r.creatures = population
       /\ r.ok =>
            r.creatures =
              syncFromWasm(BatchMemoryAfter(<<>>, population, OrchestratorEnv,
                                            libCall.numSteps, 0).mem,
                           population, LayoutOf(population))

\* the call was made with the kernel loaded on two creatures for two steps,
\* syncToWasm threw on the second creature, and the call returned false with
\* both creatures as they were
C30_Witness ==
  /\ LibDid("stepPhysicsBatch")
  /\ libCall.module = "loaded" /\ libCall.numSteps = 2
  /\ Len(libCall.population) = 2 /\ SetupThrows(libCall.population)
  /\ ~libResult.value.ok
  /\ libResult.value.creatures = libCall.population

====
